---- MODULE Spec2Model ----
(***************************************************************************)
(* Model of the LangAgent orchestration layer: the graphs built in         *)
(* src/src/agent.py, src/src/core/agent.py, src/src/meeting_room/agent.py  *)
(* and src/src/meeting_room/agent_v2.py, the reducer on messages, the      *)
(* routers of src/src/core/workflow.py and the supervisor's reply parsing. *)
(* One turn of one graph is a behaviour of Spec; the routers as pure       *)
(* functions on arbitrary states are exercised by SpecRouters, the merge   *)
(* by SpecMerge, the graph builder of src/src/core/workflow.py by          *)
(* SpecBuilder, the tool classifier by SpecClassifier, a streamed turn by  *)
(* SpecStream, the user's id by SpecUser, two executions of one compiled   *)
(* graph by SpecPair, successive turns of one agent by SpecTurns and the   *)
(* reservation store of src/src/meeting_room/tools.py by SpecStore (calls  *)
(* one at a time) and SpecRace (two calls on two threads).                 *)
(***************************************************************************)
EXTENDS Integers, Sequences, FiniteSets, TLC

VARIABLES graph, state, cur, status, err, trace, nextId, partial, reply,
          label, initLen, edgeKeys, routerDefault,
          entry, callerHistory, returned, finishOrder,
          events, givenUserId, updates,
          rMessages, rIntent, rRouter, rOut,
          mBase, mUpd, mOut,
          builder, workflow, compiled, bCall, bOps, strictEngine,
          cIn, cOut,
          runs,
          turns,
          store, bookings

vars == <<graph, state, cur, status, err, trace, nextId, partial, reply,
          label, initLen, edgeKeys, routerDefault,
          entry, callerHistory, returned, finishOrder,
          events, givenUserId, updates,
          rMessages, rIntent, rRouter, rOut,
          mBase, mUpd, mOut,
          builder, workflow, compiled, bCall, bOps, strictEngine,
          cIn, cOut,
          runs,
          turns,
          store, bookings>>

engineVars == <<graph, state, cur, status, err, trace, nextId, partial, reply,
                label, initLen, edgeKeys, routerDefault,
                entry, callerHistory, returned, finishOrder,
                events, givenUserId, updates>>

routerVars == <<rMessages, rIntent, rRouter, rOut>>

mergeVars == <<mBase, mUpd, mOut>>

builderVars == <<builder, workflow, compiled, bCall, bOps, strictEngine>>

classifierVars == <<cIn, cOut>>

pairVars == <<runs>>

turnVars == <<turns>>

storeVars == <<store, bookings>>

sideVars == <<builderVars, classifierVars, pairVars, turnVars, storeVars>>

(***************************************************************************)
(* Bounds of the model.                                                    *)
(***************************************************************************)
\* earlier turns carried in the caller's history (one turn = user + assistant)
MaxHist == 1
\* cap on the replies with pending tool invocations the model gives in a turn
MaxK == 13
\* cap on the pending tool invocations of one reply
MaxCalls == 2
\* longest transcript handed to a router evaluated on its own
MaxRouterLen == 2

(***************************************************************************)
(* Program constants and names.                                            *)
(***************************************************************************)
RecursionLimit == 25
END == "__end__"
None == "None"
Absent == "<absent>"
NoLabel == "<none>"

IndexError == "IndexError"
KeyError == "KeyError"
AttributeError == "AttributeError"
JSONDecodeError == "JSONDecodeError"
GraphRecursionError == "GraphRecursionError"
\* the repository defines no exception class of its own: an unmapped label
\* surfaces as the KeyError of the path-map lookup
RoutingError == KeyError
Exceptions == {IndexError, KeyError, AttributeError, JSONDecodeError,
               GraphRecursionError}

ReactHandGraphs == {"LangGraphAgent", "SimpleBookingAgent"}
ReactBuilderGraphs == {"SimpleReActAgent", "SimpleBookingAgentV2"}
ReactGraphs == ReactHandGraphs \cup ReactBuilderGraphs
SupervisorGraphs == {"MeetingRoomAgent", "MeetingRoomAgentV2", "RoutedWorkflow"}
Graphs == ReactGraphs \cup SupervisorGraphs

Specialists == {"booking_agent", "query_agent", "management_agent"}
AgentNodes == Specialists \cup {"agent"}
ToolNodes == {"booking_tools", "query_tools", "management_tools", "tools"}

ToolsOf(agent) ==
    CASE agent = "booking_agent" -> "booking_tools"
      [] agent = "query_agent" -> "query_tools"
      [] agent = "management_agent" -> "management_tools"
      [] OTHER -> "tools"

\* tool nodes of the specialists whose plain edge leads back to the supervisor
AgentOfSupervisor(tools) ==
    IF tools = "tools" THEN "agent" ELSE "supervisor"

AgentOf(tools) ==
    CASE tools = "booking_tools" -> "booking_agent"
      [] tools = "query_tools" -> "query_agent"
      [] tools = "management_tools" -> "management_agent"
      [] OTHER -> "agent"

\* names a model may put in a tool invocation: one bound to the tool node,
\* one that no tool node knows
BoundTool == "get_available_rooms"
BogusTool == "no_such_tool"
ToolNames == {BoundTool, BogusTool}

Min(S) == CHOOSE x \in S : \A y \in S : x <= y

(***************************************************************************)
(* Messages.  id 0 stands for a message that has no id yet.                *)
(***************************************************************************)
HumanMessage(i) ==
    [role |-> "human", id |-> i, content |-> "user", calls |-> <<>>,
     ref |-> 0, name |-> None]

AIMessage(i, text, names) ==
    [role |-> "ai", id |-> i, content |-> text,
     calls |-> [j \in 1..Len(names) |-> [cid |-> 10 * i + j, name |-> names[j]]],
     ref |-> 0, name |-> None]

ToolMessage(call, text) ==
    [role |-> "tool", id |-> 0, content |-> text, calls |-> <<>>,
     ref |-> call.cid, name |-> call.name]

HasToolCalls(m) == m.role = "ai" /\ m.calls # <<>>

IsPrefix(s, t) == Len(s) <= Len(t) /\ SubSeq(t, 1, Len(s)) = s

(***************************************************************************)
(* The reducer of messages and the merge of a partial update.              *)
(***************************************************************************)
RECURSIVE AddMessages(_, _, _)
AddMessages(left, right, fresh) ==
    IF right = <<>> THEN left
    ELSE LET m0 == Head(right)
             m == IF m0.id = 0 THEN [m0 EXCEPT !.id = fresh] ELSE m0
             nf == IF m0.id = 0 THEN fresh + 1 ELSE fresh
             pos == {i \in 1..Len(left) : left[i].id = m.id}
         IN IF pos # {}
            THEN AddMessages([left EXCEPT ![Min(pos)] = m], Tail(right), nf)
            ELSE AddMessages(Append(left, m), Tail(right), nf)

Unassigned(msgs) == Cardinality({i \in 1..Len(msgs) : msgs[i].id = 0})

\* a merge that ignores the fields of the update other than messages
MergeKeepsPrior(base, upd, fresh) ==
    [k \in DOMAIN base |->
        IF k \notin DOMAIN upd THEN base[k]
        ELSE IF k = "messages" THEN AddMessages(base[k], upd[k], fresh)
        ELSE base[k]]

\* a merge that clears the fields the update does not have
MergeClearsAbsent(base, upd, fresh) ==
    [k \in DOMAIN base |->
        IF k \notin DOMAIN upd THEN (IF k = "messages" THEN <<>> ELSE None)
        ELSE IF k = "messages" THEN AddMessages(base[k], upd[k], fresh)
        ELSE upd[k]]

\* messages merged as any other field: the update takes the transcript's place
MergeLastWriteWins(base, upd, fresh) ==
    [k \in DOMAIN base |->
        IF k \notin DOMAIN upd THEN base[k]
        ELSE IF k = "messages" THEN AddMessages(<<>>, upd[k], fresh)
        ELSE upd[k]]

Merge(base, upd, fresh) ==
    [k \in DOMAIN base |->
        IF k \notin DOMAIN upd THEN base[k]
        ELSE IF k = "messages" THEN AddMessages(base[k], upd[k], fresh)
        ELSE upd[k]]

FreshAfter(upd, fresh) ==
    IF "messages" \in DOMAIN upd THEN fresh + Unassigned(upd["messages"])
    ELSE fresh

(***************************************************************************)
(* Text of a model reply: a sequence of tokens.  A JSON value without a    *)
(* fence marker in it is one token; the object QuotedDecision has a fence  *)
(* marker inside one of its string values and is the three tokens          *)
(* <<ObjHead, FENCE, ObjTail>>.                                            *)
(***************************************************************************)
\* the three-backtick fence marker
FENCE == "<fence>"
JSONLABEL == "json"
WS == " "
PROSE == "prose"
BadJson == "{intent:"
ObjHead == "{..\""
ObjTail == "\"..}"
JsonArray == "[1]"
JsonNumber == "42"
QuotedDecision == "d_quoted"

DefaultClarification == "default question"

Decision ==
    [d_book_a    |-> [intent |-> "booking", agent |-> "booking_agent", clarification_needed |-> Absent],
     d_book      |-> [intent |-> "booking", agent |-> Absent, clarification_needed |-> Absent],
     d_mgmt_x    |-> [intent |-> "management", agent |-> "helper", clarification_needed |-> Absent],
     d_query     |-> [intent |-> "query", agent |-> Absent, clarification_needed |-> Absent],
     d_cancel    |-> [intent |-> "cancel", agent |-> Absent, clarification_needed |-> Absent],
     d_empty     |-> [intent |-> "", agent |-> Absent, clarification_needed |-> Absent],
     d_unclear_c |-> [intent |-> "unclear", agent |-> Absent, clarification_needed |-> "Which service?"],
     d_unclear   |-> [intent |-> "unclear", agent |-> Absent, clarification_needed |-> Absent],
     d_nointent  |-> [intent |-> Absent, agent |-> "booking_agent", clarification_needed |-> Absent],
     d_quoted    |-> [intent |-> "booking", agent |-> "booking_agent", clarification_needed |-> Absent]]

JsonObjects == DOMAIN Decision
JsonValues == JsonObjects \cup {JsonArray, JsonNumber}

\* the text of a JSON value
Text(v) == IF v = QuotedDecision THEN <<ObjHead, FENCE, ObjTail>> ELSE <<v>>

Bare(v) == Text(v)
Fenced(v) == <<FENCE, WS>> \o Text(v) \o <<WS, FENCE>>
JsonFenced(v) == <<FENCE, JSONLABEL, WS>> \o Text(v) \o <<WS, FENCE>>
JsonFencedInProse(v) == <<PROSE, FENCE, JSONLABEL>> \o Text(v) \o <<FENCE, PROSE>>

Replies ==
    UNION {{Bare(v), Fenced(v), JsonFenced(v), JsonFencedInProse(v)} : v \in JsonValues}
    \cup {<<>>, <<PROSE>>, <<PROSE, WS, PROSE>>, <<BadJson>>, <<WS, BadJson, WS>>,
          <<FENCE>>, <<FENCE, JSONLABEL>>, <<PROSE, FENCE, PROSE>>,
          <<FENCE, JSONLABEL, WS, BadJson, WS, FENCE>>,
          <<FENCE, WS, "d_book", WS>>, <<FENCE, JSONLABEL, "d_book">>,
          <<"d_book", PROSE>>}

\* index of the first occurrence of pat in s, 0 when there is none
Find(s, pat) ==
    LET idx == {i \in 1..(Len(s) - Len(pat) + 1) : SubSeq(s, i, i + Len(pat) - 1) = pat}
    IN IF idx = {} THEN 0 ELSE Min(idx)

\* s.split(pat)[0]
SplitHead(s, pat) ==
    LET i == Find(s, pat) IN IF i = 0 THEN s ELSE SubSeq(s, 1, i - 1)

\* s.split(pat)[1], for an s that contains pat
SplitSecond(s, pat) ==
    SplitHead(SubSeq(s, Find(s, pat) + Len(pat), Len(s)), pat)

RECURSIVE LStrip(_)
LStrip(s) == IF s # <<>> /\ Head(s) = WS THEN LStrip(Tail(s)) ELSE s

RECURSIVE RStrip(_)
RStrip(s) ==
    IF s # <<>> /\ s[Len(s)] = WS THEN RStrip(SubSeq(s, 1, Len(s) - 1)) ELSE s

Strip(s) == RStrip(LStrip(s))

\* json.loads: the value the text denotes, or JSONDecodeError
JsonLoads(s) ==
    IF Len(s) = 1 /\ s[1] \in JsonValues \ {QuotedDecision} THEN s[1]
    ELSE IF s = Text(QuotedDecision) THEN QuotedDecision
    ELSE JSONDecodeError

\* dict.get(key, default)
Get(d, key, default) == IF d[key] = Absent THEN default ELSE d[key]

\* f"{intent}_agent"
IntentAgentName(intent) ==
    CASE intent = "booking" -> "booking_agent"
      [] intent = "query" -> "query_agent"
      [] intent = "management" -> "management_agent"
      [] intent = "cancel" -> "cancel_agent"
      [] intent = "" -> "_agent"
      [] OTHER -> "unclear_agent"

StripFences(content) ==
    IF Find(content, <<FENCE, JSONLABEL>>) # 0
    THEN SplitHead(SplitSecond(content, <<FENCE, JSONLABEL>>), <<FENCE>>)
    ELSE IF Find(content, <<FENCE>>) # 0
    THEN SplitHead(SplitSecond(content, <<FENCE>>), <<FENCE>>)
    ELSE content

Returns(upd) == [exc |-> "none", upd |-> upd]
Raises(e) == [exc |-> e, upd |-> <<>>]

\* a fallback that routes to the booking specialist
DefaultRouteBooking == [intent |-> "booking", current_agent |-> "booking_agent"]

\* the partial of the except branch
DefaultRoute == [intent |-> "query", current_agent |-> "query_agent"]

\* a clarification that leaves the sentinel in intent
ClarifyKeepsSentinel(decision) ==
    [messages |-> <<[role |-> "ai", id |-> 0,
                     content |-> Get(decision, "clarification_needed", DefaultClarification),
                     calls |-> <<>>, ref |-> 0, name |-> None]>>,
     intent |-> "unclear",
     current_agent |-> "supervisor"]

\* the partial of the intent == "unclear" branch
Clarify(decision) ==
    [messages |-> <<[role |-> "ai", id |-> 0,
                     content |-> Get(decision, "clarification_needed", DefaultClarification),
                     calls |-> <<>>, ref |-> 0, name |-> None]>>,
     intent |-> None,
     current_agent |-> "supervisor"]

\* the body of supervisor_node after the model has replied with content
supervisor_node(content) ==
    LET v == JsonLoads(Strip(StripFences(content)))
    IN IF v = JSONDecodeError THEN Returns(DefaultRoute)
       ELSE IF v \notin JsonObjects THEN Raises(AttributeError)
       ELSE LET decision == Decision[v]
                intent == Get(decision, "intent", "unclear")
            IN IF intent = "unclear" THEN Returns(Clarify(decision))
               ELSE Returns([intent |-> intent,
                             current_agent |-> Get(decision, "agent", IntentAgentName(intent))])

supervisor_node_v2(content) == supervisor_node(content)

(***************************************************************************)
(* Routers.  A router yields a label, or the name of the exception it      *)
(* raises.                                                                 *)
(***************************************************************************)
Last(msgs) == msgs[Len(msgs)]

\* a router that looks at the first message of the transcript
should_continue_first(st) ==
    IF st["messages"] = <<>> THEN IndexError
    ELSE IF HasToolCalls(st["messages"][1]) THEN "tools" ELSE "end"

\* LangGraphAgent / SimpleBookingAgent: labels "tools" and "end"
should_continue(st) ==
    IF st["messages"] = <<>> THEN IndexError
    ELSE IF HasToolCalls(Last(st["messages"])) THEN "tools" ELSE "end"

should_continue_booking(st) ==
    IF st["messages"] = <<>> THEN IndexError
    ELSE IF HasToolCalls(Last(st["messages"])) THEN "booking_tools" ELSE END

should_continue_query(st) ==
    IF st["messages"] = <<>> THEN IndexError
    ELSE IF HasToolCalls(Last(st["messages"])) THEN "query_tools" ELSE END

should_continue_management(st) ==
    IF st["messages"] = <<>> THEN IndexError
    ELSE IF HasToolCalls(Last(st["messages"])) THEN "management_tools" ELSE END

create_tool_continue_condition(tools_node_name, end_node, st) ==
    IF st["messages"] = <<>> THEN end_node
    ELSE IF HasToolCalls(Last(st["messages"])) THEN tools_node_name
    ELSE end_node

create_tool_condition(tools_node, st) ==
    IF st["messages"] # <<>> /\ HasToolCalls(Last(st["messages"])) THEN tools_node
    ELSE END

\* a router whose last branch falls through to the query specialist
route_by_intent_fallthrough(st) ==
    IF st["intent"] = "booking" THEN "booking_agent"
    ELSE IF st["intent"] = "management" THEN "management_agent"
    ELSE "query_agent"

\* a router that names the specialist after the intent, whatever it is
route_by_intent_by_name(st) ==
    IF st["intent"] = None THEN END ELSE IntentAgentName(st["intent"])

route_by_intent(st) ==
    IF st["intent"] = "booking" THEN "booking_agent"
    ELSE IF st["intent"] = "query" THEN "query_agent"
    ELSE IF st["intent"] = "management" THEN "management_agent"
    ELSE END

IntentMapping ==
    [booking |-> "booking_agent", query |-> "query_agent",
     management |-> "management_agent"]

create_intent_router(intent_mapping, default_node, st) ==
    IF st["intent"] \in DOMAIN intent_mapping THEN intent_mapping[st["intent"]]
    ELSE default_node

\* a router that sends every other intent to the query specialist
route_by_intent_v2_query(st) ==
    LET mapping == [booking |-> "booking_agent", query |-> "query_agent",
                    management |-> "management_agent"]
    IN IF st["intent"] \in DOMAIN mapping THEN mapping[st["intent"]] ELSE "query_agent"

route_by_intent_v2(st) ==
    LET mapping == [booking |-> "booking_agent", query |-> "query_agent",
                    management |-> "management_agent"]
    IN IF st["intent"] \in DOMAIN mapping THEN mapping[st["intent"]] ELSE END

(***************************************************************************)
(* The graphs: entry point, router and label mapping of each conditional   *)
(* edge.  Every tool node has the plain edge back to its agent.            *)
(***************************************************************************)
Entry(g) == IF g \in SupervisorGraphs THEN "supervisor" ELSE "agent"

Identity(S) == [l \in S |-> l]

Router(g, node, st) ==
    CASE g \in ReactHandGraphs -> should_continue(st)
      [] g \in ReactBuilderGraphs -> create_tool_continue_condition("tools", END, st)
      [] g = "MeetingRoomAgent" /\ node = "supervisor" -> route_by_intent(st)
      [] g = "MeetingRoomAgent" /\ node = "booking_agent" -> should_continue_booking(st)
      [] g = "MeetingRoomAgent" /\ node = "query_agent" -> should_continue_query(st)
      [] g = "MeetingRoomAgent" /\ node = "management_agent" -> should_continue_management(st)
      [] g = "MeetingRoomAgentV2" /\ node = "supervisor" -> route_by_intent_v2(st)
      [] g = "MeetingRoomAgentV2" /\ node # "supervisor" -> create_tool_condition(ToolsOf(node), st)
      [] g = "RoutedWorkflow" /\ node = "supervisor" ->
            create_intent_router(IntentMapping, routerDefault, st)
      [] g = "RoutedWorkflow" /\ node # "supervisor" ->
            create_tool_continue_condition(ToolsOf(node), END, st)

Mapping(g, node) ==
    CASE g \in ReactHandGraphs -> [tools |-> "tools", end |-> END]
      [] g \in ReactBuilderGraphs -> Identity({"tools", END})
      [] g = "RoutedWorkflow" /\ node = "supervisor" -> Identity(edgeKeys)
      [] g # "RoutedWorkflow" /\ node = "supervisor" -> Identity(Specialists \cup {END})
      [] OTHER -> Identity({ToolsOf(node), END})

FullKeys == Specialists \cup {END}

Schema(g) ==
    IF g = "LangGraphAgent" THEN {"messages"}
    ELSE {"messages", "user_id", "intent", "current_agent", "context"}

UserIds == {"default_user", "alice"}

\* the default_user_id an agent is constructed with
DefaultUserId == "default_user"

\* what a caller may pass as user_id: nothing, an empty string, a name
CallerUserIds == {None, "", "alice"}

\* a turn that takes the caller's user_id even when it is empty
UserIdIfGiven(given) == IF given = None THEN DefaultUserId ELSE given

\* user_id or self.default_user_id
UserIdOf(given) == IF given \in {None, ""} THEN DefaultUserId ELSE given

\* the caller's history after h earlier turns, followed by the new message
InputMessages(h) ==
    [i \in 1..(2 * h + 1) |->
        IF i % 2 = 1 THEN HumanMessage(i) ELSE AIMessage(i, "answer", <<>>)]

InitialState(g, h, uid) ==
    [k \in Schema(g) |->
        IF k = "messages" THEN AddMessages(<<>>, InputMessages(h), 2 * h + 2)
        ELSE IF k = "user_id" THEN uid
        ELSE None]

NoReply == <<NoLabel>>
NoPartial == [none |-> NoLabel]

(***************************************************************************)
(* The engine: one action per kind of node.  An action runs the node, and  *)
(* Commit merges its partial update and resolves the next node.            *)
(***************************************************************************)
Running == status = "running"

\* largest number of tool-call replies whose loop fits in the step limit
StepLimitK == (RecursionLimit - 1) \div 2

\* replies of this turn that carry pending tool invocations
ToolReplies ==
    Cardinality({i \in (initLen + 1)..Len(state["messages"]) :
                    HasToolCalls(state["messages"][i])})

\* an unmapped label treated as the terminal marker
ResolveSilently(map, lab) == IF lab \in DOMAIN map THEN map[lab] ELSE END

\* lookup of the router's label in the mapping of the conditional edge
Resolve(map, lab) == IF lab \in DOMAIN map THEN map[lab] ELSE KeyError

Fail(e) ==
    /\ status' = "error"
    /\ err' = e
    /\ returned' = NoLabel
    /\ callerHistory' = callerHistory

\* an engine that never counts its steps
LimitReachedNever(tr, target) == FALSE

\* the step limit: another node is due after RecursionLimit node executions
LimitReached(tr, target) == target # END /\ Len(tr) >= RecursionLimit

\* an engine that does not return when the terminal marker is resolved
FinishNeverReturns(st1) ==
    /\ status' = "running"
    /\ err' = "none"
    /\ cur' = END
    /\ returned' = NoLabel
    /\ callerHistory' = callerHistory

\* the end of a successful turn: the text of the last message is returned,
\* and the /chat endpoint stores the returned transcript for the session
Finish(st1) ==
    /\ status' = "done"
    /\ err' = "none"
    /\ cur' = END
    /\ returned' = Last(st1["messages"]).content
    /\ callerHistory' = IF entry = "api_chat" THEN st1["messages"] ELSE callerHistory

\* the value of a key of a partial update, None when it is absent
ValueOf(upd, k) == IF k \in DOMAIN upd THEN upd[k] ELSE None

\* the messages of a partial update that chat_stream reports
Reported(upd) ==
    IF "messages" \in DOMAIN upd
    THEN SelectSeq(upd["messages"], LAMBDA m : m.role \in {"ai", "tool"})
    ELSE <<>>

\* the text shown for a reply without content
CallingTools == "(calling tools...)"

\* msg.content[:500]: only a result longer than 500 characters is cut, and
\* the results of the model's tools are shorter
LongResult == "a result of more than 500 characters"
Truncate(content) ==
    IF content = LongResult THEN "its first 500 characters" ELSE content

RECURSIVE CallsOf(_)
CallsOf(msgs) ==
    IF msgs = <<>> THEN <<>>
    ELSE [j \in 1..Len(Head(msgs).calls) |-> [name |-> Head(msgs).calls[j].name]]
         \o CallsOf(Tail(msgs))

\* the step_info chat_stream builds from one node's update
StepInfo(node, upd) ==
    LET msgs == Reported(upd)
        ais == SelectSeq(msgs, LAMBDA m : m.role = "ai")
        results == SelectSeq(msgs, LAMBDA m : m.role = "tool")
    IN [node |-> node,
        status |-> "completed",
        output |-> IF ais = <<>> THEN None
                   ELSE IF Last(ais).content = "" THEN CallingTools
                   ELSE Last(ais).content,
        messages |-> [i \in 1..Len(msgs) |->
                        IF msgs[i].role = "ai"
                        THEN [type |-> "ai", content |-> msgs[i].content]
                        ELSE [type |-> "tool", name |-> msgs[i].name,
                              content |-> msgs[i].content]],
        tool_calls |-> CallsOf(ais),
        tool_results |-> [i \in 1..Len(results) |->
                            [name |-> results[i].name,
                             result |-> Truncate(results[i].content)]],
        intent |-> ValueOf(upd, "intent"),
        current_agent |-> ValueOf(upd, "current_agent")]

\* a stream that keeps its events until the turn is over
EmitAtEnd(evs, e) == evs

\* yield step_info: the consumer has the event before the engine goes on
Emit(evs, e) == Append(evs, e)

\* a stream whose chunks carry the messages of an update and nothing else
ChunkMessagesOnly(node, upd) ==
    [node |-> node,
     update |-> [k \in DOMAIN upd \cap {"messages"} |-> upd[k]]]

\* graph.stream(state, stream_mode="updates"): one chunk per executed node,
\* the node's name and the partial update it returned
Chunk(node, upd) == [node |-> node, update |-> upd]

Commit(node, upd, fresh) ==
    LET st1 == Merge(state, upd, fresh)
        tr == Append(trace, node)
        lab == IF node \in ToolNodes THEN NoLabel ELSE Router(graph, node, st1)
        map == Mapping(graph, node)
        target == IF node \in ToolNodes THEN AgentOf(node)
                  ELSE IF lab \in Exceptions THEN lab
                  ELSE Resolve(map, lab)
        failure == IF target \in Exceptions THEN target
                   ELSE IF LimitReached(tr, target) THEN GraphRecursionError
                   ELSE "none"
    IN /\ state' = st1
       /\ nextId' = FreshAfter(upd, fresh)
       /\ trace' = tr
       /\ partial' = upd
       /\ label' = lab
       /\ events' = IF entry = "chat_stream" /\ target \notin Exceptions
                    THEN Emit(events, StepInfo(node, upd))
                    ELSE events
       /\ updates' = IF entry = "chat_stream" /\ target \notin Exceptions
                     THEN Append(updates, Chunk(node, upd))
                     ELSE updates
       /\ IF failure # "none" THEN Fail(failure) /\ cur' = node
          ELSE IF target = END THEN Finish(st1)
          ELSE /\ status' = "running" /\ err' = "none" /\ cur' = target
               /\ UNCHANGED <<returned, callerHistory>>

SupervisorStep ==
    /\ Running
    /\ cur = "supervisor"
    /\ \E r \in Replies :
         LET res == IF graph = "MeetingRoomAgent" THEN supervisor_node(r)
                    ELSE supervisor_node_v2(r)
         IN /\ reply' = r
            /\ finishOrder' = <<>>
            /\ IF res.exc # "none"
               THEN /\ Fail(res.exc)
                    /\ partial' = NoPartial
                    /\ UNCHANGED <<state, cur, trace, nextId, label, events, updates>>
               ELSE Commit("supervisor", res.upd, nextId)
    /\ UNCHANGED <<graph, initLen, edgeKeys, routerDefault, entry, givenUserId>>
    /\ UNCHANGED routerVars
    /\ UNCHANGED mergeVars
    /\ UNCHANGED sideVars

\* the batches of tool names the model may ask for in its next reply: any
\* batch in its first reply of the turn, one invocation of a bound tool in a
\* later one, and one invocation of either tool in the reply whose tool node
\* may be the last node the step limit admits
Batches ==
    IF ToolReplies >= MaxK THEN {<<>>}
    ELSE IF ToolReplies = StepLimitK - 1 THEN {<<>>, <<BoundTool>>, <<BogusTool>>}
    ELSE IF ToolReplies > 0 THEN {<<>>, <<BoundTool>>}
    ELSE {<<>>} \cup UNION {[1..n -> ToolNames] : n \in 1..MaxCalls}

AgentStep ==
    /\ Running
    /\ cur \in AgentNodes
    /\ \E names \in Batches :
         LET response == AIMessage(nextId, IF names = <<>> THEN "answer" ELSE "", names)
             upd == IF cur \in Specialists
                    THEN [messages |-> <<response>>, current_agent |-> cur]
                    ELSE [messages |-> <<response>>]
         IN Commit(cur, upd, nextId + 1)
    /\ reply' = NoReply
    /\ finishOrder' = <<>>
    /\ UNCHANGED <<graph, initLen, edgeKeys, routerDefault, entry, givenUserId>>
    /\ UNCHANGED routerVars
    /\ UNCHANGED mergeVars
    /\ UNCHANGED sideVars

\* a tool node that answers an unknown name as if the tool had run
ToolResultNoError(call) == ToolMessage(call, "result")

ToolResult(call) ==
    IF call.name = BoundTool THEN ToolMessage(call, "result")
    ELSE ToolMessage(call, "Error: not a valid tool")

\* the orders in which n calls running side by side may finish
Orders(n) == {f \in [1..n -> 1..n] : \A i, j \in 1..n : i # j => f[i] # f[j]}

\* results handed over in the order the calls finish
GatherAsCompleted(calls, order) ==
    [j \in 1..Len(order) |-> ToolResult(calls[order[j]])]

\* the calls run side by side and finish in the given order; the result of
\* the call that finishes k-th takes the place of its call, order[k]
Gather(calls, order) ==
    [j \in 1..Len(calls) |->
        LET k == CHOOSE k \in 1..Len(calls) : order[k] = j
        IN ToolResult(calls[order[k]])]

ToolStep ==
    /\ Running
    /\ cur \in ToolNodes
    /\ LET calls == Last(state["messages"]).calls
       IN \E order \in Orders(Len(calls)) :
            /\ finishOrder' = order
            /\ Commit(cur, [messages |-> Gather(calls, order)], nextId)
    /\ reply' = NoReply
    /\ UNCHANGED <<graph, initLen, edgeKeys, routerDefault, entry, givenUserId>>
    /\ UNCHANGED routerVars
    /\ UNCHANGED mergeVars
    /\ UNCHANGED sideVars

NoRouter == [fn |-> NoLabel, tools |-> NoLabel, end |-> NoLabel]

\* the methods a turn may come in by
Entries(g) ==
    CASE g = "LangGraphAgent" -> {"chat", "chat_with_history", "api_chat"}
      [] g = "MeetingRoomAgent" -> {"chat", "chat_with_history"}
      [] g = "SimpleBookingAgent" -> {"chat"}
      [] g = "RoutedWorkflow" -> {"invoke"}
      [] OTHER -> {"chat", "chat_with_history"}

\* the graphs whose chat method works on the list it was given
AliasingGraphs == {"LangGraphAgent", "MeetingRoomAgent", "SimpleBookingAgent"}

\* the caller's history after h earlier turns
HistoryBefore(h) == SubSeq(InputMessages(h), 1, 2 * h)

\* the caller's list when the graph is invoked: chat of the hand-built
\* agents appends the new message to a non-empty list it was given, every
\* other method appends to a copy
HistoryAtInvoke(g, e, h) ==
    IF e = "chat" /\ g \in AliasingGraphs /\ h > 0 THEN InputMessages(h)
    ELSE HistoryBefore(h)

NoMerge == [none |-> NoLabel]

NoGraph == [none |-> NoLabel]
NoCall == [op |-> NoLabel]
EmptyTable == [k \in {} |-> None]

BuilderIdle ==
    /\ builder = NoGraph
    /\ workflow = NoGraph
    /\ compiled = NoGraph
    /\ bCall = NoCall
    /\ bOps = <<0, 0>>
    /\ strictEngine = FALSE

ClassifierIdle ==
    /\ cIn = NoCall
    /\ cOut = NoCall

PairIdle == runs = <<>>

TurnsIdle == turns = 0

StoreIdle == store = <<>> /\ bookings = <<>>

SideIdle == BuilderIdle /\ ClassifierIdle /\ PairIdle /\ TurnsIdle /\ StoreIdle

MergeIdle ==
    /\ mBase = NoMerge
    /\ mUpd = NoMerge
    /\ mOut = <<>>

RouterIdle ==
    /\ rMessages = <<>>
    /\ rIntent = None
    /\ rRouter = NoRouter
    /\ rOut = NoLabel

\* the user_id arguments of the model's turns; LangGraphAgent takes none
GivenIds(g) == IF g = "LangGraphAgent" THEN {None} ELSE {None, "alice"}

\* the agents built on BaseAgent, which have chat_stream
BaseAgents == {"SimpleReActAgent", "SimpleBookingAgentV2", "MeetingRoomAgentV2"}

\* the start of a turn after h earlier ones, by method e, for the user given
InitTurn(h, e, given) ==
    /\ state = InitialState(graph, h, UserIdOf(given))
    /\ givenUserId = given
    /\ initLen = 2 * h + 1
    /\ nextId = 2 * h + 2
    /\ entry = e
    /\ callerHistory = HistoryAtInvoke(graph, e, h)
    /\ events = <<>>
    /\ updates = <<>>

InitRest ==
    /\ returned = NoLabel
    /\ finishOrder = <<>>
    /\ cur = Entry(graph)
    /\ status = "running"
    /\ err = "none"
    /\ trace = <<>>
    /\ partial = NoPartial
    /\ reply = NoReply
    /\ label = NoLabel
    /\ IF graph = "RoutedWorkflow"
       THEN /\ edgeKeys \in {FullKeys, {"booking_agent", END}, Specialists}
            /\ routerDefault \in {END, "general_agent"}
       ELSE /\ edgeKeys = FullKeys
            /\ routerDefault = END
    /\ RouterIdle
    /\ MergeIdle
    /\ SideIdle

Init ==
    /\ graph \in Graphs
    /\ \E h \in 0..MaxHist, given \in GivenIds(graph), e \in Entries(graph) :
         InitTurn(h, e, given)
    /\ InitRest

\* the turns that come in by chat_stream
InitStream ==
    /\ graph \in BaseAgents
    /\ \E h \in 0..MaxHist : InitTurn(h, "chat_stream", None)
    /\ InitRest

\* first turns for every user_id a caller may pass
InitUser ==
    /\ graph \in Graphs \ {"LangGraphAgent", "RoutedWorkflow"}
    /\ \E given \in CallerUserIds, e \in Entries(graph) : InitTurn(0, e, given)
    /\ InitRest

Next == SupervisorStep \/ AgentStep \/ ToolStep

Spec == Init /\ [][Next]_vars

SpecStream == InitStream /\ [][Next]_vars

SpecUser == InitUser /\ [][Next]_vars

\* the first turn of a conversation, by the chat method (invoke for the
\* builder's graph), for the default user
InitLive ==
    /\ Init
    /\ initLen = 1
    /\ entry \in {"chat", "invoke"}
    /\ "user_id" \in DOMAIN state => state["user_id"] = "default_user"

\* graph.invoke runs the node that is due until no node is due
SpecLive == InitLive /\ [][Next]_vars /\ WF_vars(Next)

(***************************************************************************)
(* Successive turns of one agent: when a turn is over the caller starts    *)
(* the next one by chat or chat_with_history, with a history of its own    *)
(* choice.  The graphs are compiled without a checkpointer, so a turn      *)
(* starts from the state its method prepares.                              *)
(***************************************************************************)
MaxOf(S) == CHOOSE x \in S : \A y \in S : x >= y

\* an id no message of a transcript has (the engine draws a random one)
FreeId(msgs) == 1 + MaxOf({0} \cup {msgs[i].id : i \in 1..Len(msgs)})

\* turns of one agent after its first one
MaxTurns == 1
\* longest history a caller hands to a later turn
MaxCarry == 4

\* the agents of the model whose state has the routing fields
TurnGraphs == {"MeetingRoomAgent", "MeetingRoomAgentV2", "SimpleReActAgent"}

\* a turn that starts from the fields the previous turn ended with
TurnInputKeepsFields(g, prev, history, id, uid) ==
    [k \in Schema(g) |->
        IF k = "messages" THEN Append(history, HumanMessage(id)) ELSE prev[k]]

\* prepare_state, and the state chat and chat_with_history of
\* MeetingRoomAgent build: the history, the new message, the user's id, and
\* None in every other field
TurnInput(g, prev, history, id, uid) ==
    [k \in Schema(g) |->
        IF k = "messages" THEN Append(history, HumanMessage(id))
        ELSE IF k = "user_id" THEN uid
        ELSE None]

\* the histories a caller can hand to the next turn: none, the list it
\* holds, the transcript chat_with_history returned to it
Supplied ==
    {<<>>, callerHistory}
        \cup IF status = "done" /\ entry = "chat_with_history"
             THEN {state["messages"]} ELSE {}

InitTurns ==
    /\ graph \in TurnGraphs
    /\ \E e \in {"chat", "chat_with_history"} : InitTurn(0, e, None)
    /\ InitRest

StartTurn ==
    /\ status \in {"done", "error"}
    /\ turns < MaxTurns
    /\ turns' = turns + 1
    /\ \E e \in {"chat", "chat_with_history"}, history \in Supplied :
         /\ Len(history) <= MaxCarry
         /\ state' = TurnInput(graph, state, history, FreeId(history),
                               UserIdOf(givenUserId))
         /\ initLen' = Len(history) + 1
         /\ entry' = e
         /\ callerHistory' =
               IF e = "chat" /\ graph \in AliasingGraphs /\ history # <<>>
               THEN Append(history, HumanMessage(FreeId(history)))
               ELSE history
         /\ nextId' = FreeId(history) + 1
    /\ cur' = Entry(graph)
    /\ status' = "running"
    /\ err' = "none"
    /\ trace' = <<>>
    /\ partial' = NoPartial
    /\ reply' = NoReply
    /\ label' = NoLabel
    /\ returned' = NoLabel
    /\ finishOrder' = <<>>
    /\ events' = <<>>
    /\ updates' = <<>>
    /\ UNCHANGED <<graph, edgeKeys, routerDefault, givenUserId>>
    /\ UNCHANGED routerVars
    /\ UNCHANGED mergeVars
    /\ UNCHANGED <<builderVars, classifierVars, pairVars, storeVars>>

NextTurns == Next \/ StartTurn

SpecTurns == InitTurns /\ [][NextTurns]_vars

(***************************************************************************)
(* The tool-call loop routers as functions of an arbitrary state.          *)
(***************************************************************************)
RouterMessages ==
    {HumanMessage(1), AIMessage(2, "answer", <<>>), AIMessage(3, "", <<BoundTool>>),
     AIMessage(4, "", <<BoundTool, BogusTool>>),
     [ToolMessage([cid |-> 31, name |-> BoundTool], "result") EXCEPT !.id = 5]}

RouterTranscripts ==
    {t \in UNION {[1..n -> RouterMessages] : n \in 0..MaxRouterLen} :
        \A i, j \in 1..Len(t) : i # j => t[i].id # t[j].id}

RouterIntents == {None, "", "booking", "query", "management", "cancel"}

\* a router with the labels it is built for
HandWrittenRouters ==
    {[fn |-> "should_continue", tools |-> "tools", end |-> "end"],
     [fn |-> "should_continue_booking", tools |-> "booking_tools", end |-> END],
     [fn |-> "should_continue_query", tools |-> "query_tools", end |-> END],
     [fn |-> "should_continue_management", tools |-> "management_tools", end |-> END]}

FactoryRouters ==
    {[fn |-> "create_tool_continue_condition", tools |-> t, end |-> e] :
        t \in ToolNodes, e \in {END, "end"}}
    \cup {[fn |-> "create_tool_condition", tools |-> t, end |-> END] : t \in ToolNodes}

ToolLoopRouters == HandWrittenRouters \cup FactoryRouters

ApplyRouter(r, st) ==
    CASE r.fn = "should_continue" -> should_continue(st)
      [] r.fn = "should_continue_booking" -> should_continue_booking(st)
      [] r.fn = "should_continue_query" -> should_continue_query(st)
      [] r.fn = "should_continue_management" -> should_continue_management(st)
      [] r.fn = "create_tool_continue_condition" ->
            create_tool_continue_condition(r.tools, r.end, st)
      [] r.fn = "create_tool_condition" -> create_tool_condition(r.tools, st)

EngineIdle ==
    /\ graph = "LangGraphAgent"
    /\ state = InitialState("LangGraphAgent", 0, "default_user")
    /\ initLen = 1
    /\ nextId = 2
    /\ cur = Entry("LangGraphAgent")
    /\ status = "running"
    /\ err = "none"
    /\ trace = <<>>
    /\ partial = NoPartial
    /\ reply = NoReply
    /\ label = NoLabel
    /\ edgeKeys = FullKeys
    /\ routerDefault = END
    /\ entry = "chat"
    /\ callerHistory = <<>>
    /\ returned = NoLabel
    /\ finishOrder = <<>>
    /\ events = <<>>
    /\ updates = <<>>
    /\ givenUserId = None

InitRouters ==
    /\ EngineIdle
    /\ MergeIdle
    /\ SideIdle
    /\ rMessages \in RouterTranscripts
    /\ rIntent \in RouterIntents
    /\ rRouter = NoRouter
    /\ rOut = NoLabel

EvalRouter ==
    /\ rRouter = NoRouter
    /\ \E r \in ToolLoopRouters :
         /\ rRouter' = r
         /\ rOut' = ApplyRouter(r, [messages |-> rMessages, intent |-> rIntent])
    /\ UNCHANGED <<rMessages, rIntent>>
    /\ UNCHANGED engineVars
    /\ UNCHANGED mergeVars
    /\ UNCHANGED sideVars

NextRouters == EvalRouter

SpecRouters == InitRouters /\ [][NextRouters]_vars

(***************************************************************************)
(* The merge of a partial update as a function of an arbitrary state and   *)
(* an arbitrary partial, applied twice in succession.                      *)
(***************************************************************************)
\* a node that returns an empty mapping
EmptyPartial == [k \in {} |-> None]

\* an id no message of a caller's history has
ReplyId == 2 * MaxHist + 2

MergeBases ==
    {InitialState(g, h, uid) :
        g \in {"LangGraphAgent", "MeetingRoomAgent"}, h \in 0..MaxHist, uid \in UserIds}
    \cup {[InitialState("MeetingRoomAgent", h, "alice")
              EXCEPT !["intent"] = "booking", !["current_agent"] = "booking_agent"] :
            h \in 0..MaxHist}

\* partial updates as the nodes return them: a model reply carries the id
\* the provider gave it, a clarification and the tool results carry none
MergePartials ==
    {[messages |-> <<AIMessage(ReplyId, "answer", <<>>)>>],
     [messages |-> <<AIMessage(ReplyId, "", <<BoundTool>>)>>],
     [messages |-> <<AIMessage(ReplyId, "answer", <<>>)>>, current_agent |-> "query_agent"],
     [messages |-> <<AIMessage(2, "answer", <<>>)>>],
     [messages |-> <<ToolMessage([cid |-> 31, name |-> BoundTool], "result")>>],
     [messages |-> <<ToolMessage([cid |-> 31, name |-> BoundTool], "result"),
                     ToolMessage([cid |-> 32, name |-> BogusTool], "Error: not a valid tool")>>],
     Clarify(Decision["d_unclear"]),
     DefaultRoute}

Max(S) == CHOOSE x \in S : \A y \in S : x >= y

\* a fresh identifier: one that neither the state nor the update holds
MergeFresh(st, upd) ==
    LET held == {st["messages"][i].id : i \in 1..Len(st["messages"])}
        new == IF "messages" \in DOMAIN upd
               THEN {upd["messages"][i].id : i \in 1..Len(upd["messages"])}
               ELSE {}
    IN 1 + Max({0} \cup held \cup new)

RECURSIVE AssignIds(_, _)
AssignIds(msgs, fresh) ==
    IF msgs = <<>> THEN <<>>
    ELSE IF Head(msgs).id = 0
         THEN <<[Head(msgs) EXCEPT !.id = fresh]>> \o AssignIds(Tail(msgs), fresh + 1)
         ELSE <<Head(msgs)>> \o AssignIds(Tail(msgs), fresh)

\* the update as the reducer leaves it: the reducer writes the identifiers
\* it assigns into the message objects it was given
WithIds(upd, fresh) ==
    IF "messages" \in DOMAIN upd
    THEN [upd EXCEPT !["messages"] = AssignIds(upd["messages"], fresh)]
    ELSE upd

InitMerge ==
    /\ EngineIdle
    /\ RouterIdle
    /\ SideIdle
    /\ mBase \in MergeBases
    /\ \/ mUpd = EmptyPartial
       \/ mUpd \in {u \in MergePartials : DOMAIN u \subseteq DOMAIN mBase}
    /\ mOut = <<>>

\* one more merge of the same update; on the second merge its messages are
\* the same objects (with the identifiers of the first merge) or equal
\* copies of what the node returned
MergeStep ==
    /\ mBase # NoMerge
    /\ Len(mOut) < 2
    /\ LET st == IF mOut = <<>> THEN mBase ELSE mOut[Len(mOut)]
           seen == IF mOut = <<>> THEN {mUpd}
                   ELSE {mUpd, WithIds(mUpd, MergeFresh(mBase, mUpd))}
       IN \E upd \in seen :
            mOut' = Append(mOut, Merge(st, upd, MergeFresh(st, upd)))
    /\ UNCHANGED <<mBase, mUpd>>
    /\ UNCHANGED engineVars
    /\ UNCHANGED routerVars
    /\ UNCHANGED sideVars

NextMerge == MergeStep

SpecMerge == InitMerge /\ [][NextMerge]_vars

(***************************************************************************)
(* The graph builder: WorkflowBuilder keeps its own record of nodes, edges *)
(* and entry point and passes every call on to the engine's StateGraph,    *)
(* which does the checking.  compile() is the engine's compile().          *)
(***************************************************************************)
START == "__start__"
ValueError == "ValueError"
\* what the engine raises for a node without an action (TypeError or
\* RuntimeError, depending on its release)
TypeError == "TypeError"
\* the repository defines no exception classes of its own: a duplicate
\* name and a failed validation surface as the engine's ValueError
DuplicateNodeError == ValueError
GraphValidationError == ValueError

\* tool lists: none given, an empty list, a list with tools in it
EmptyList == "[]"
SomeTools == "[get_available_rooms]"
ToolLists == {None, EmptyList, SomeTools}
Handlers == {None, "handler_1", "handler_2"}
NodeNames == {"agent", "tools"}
\* a name no add_node call ever uses
GhostNode == "ghost"

\* truth value of a Python object
Truthy(x) == x \notin {None, EmptyList}

Put(table, key, value) ==
    [k \in DOMAIN table \cup {key} |-> IF k = key THEN value ELSE table[k]]

\* NodeDefinition with its __post_init__
NodeDefinition(name, handler, tools) ==
    [name |-> name, handler |-> handler, tools |-> tools,
     is_tool_node |-> Truthy(tools) /\ ~Truthy(handler)]

\* the action add_node hands to the engine
ActionOf(node_def) ==
    IF node_def.is_tool_node THEN "ToolNode" ELSE node_def.handler

\* StateGraph.add_node: the outcomes of the call; a name that is taken and
\* a missing action are both refused, in an order that depends on the
\* engine's release
GraphAddNode(w, name, action) ==
    IF name \in DOMAIN w.nodes /\ action = None THEN {ValueError, TypeError}
    ELSE IF name \in DOMAIN w.nodes THEN {ValueError}
    ELSE IF name \in {START, END} THEN {ValueError}
    ELSE IF action = None THEN {TypeError}
    ELSE {"none"}

\* StateGraph.add_edge
GraphAddEdge(w, source, target) ==
    IF source = END \/ target = START THEN ValueError ELSE "none"

\* StateGraph.add_conditional_edges: one branch per source and condition
GraphAddConditionalEdges(w, source, condition) ==
    IF \E b \in w.branches : b.source = source /\ b.condition = condition
    THEN ValueError ELSE "none"

Sources(w) == {e[1] : e \in w.edges} \cup {b.source : b \in w.branches}
Targets(w) == {e[2] : e \in w.edges} \cup UNION {b.ends : b \in w.branches}

\* nodes without an outgoing edge
DeadEnds(w) == DOMAIN w.nodes \ Sources(w)

\* a validation that only asks for an entry point
ValidateEntryOnly(w, strict) ==
    IF START \notin Sources(w) THEN ValueError ELSE "none"

\* StateGraph.validate, run by compile(); strict is a release of the engine
\* that also refuses nodes without an outgoing edge
Validate(w, strict) ==
    IF \E s \in Sources(w) : s \notin DOMAIN w.nodes /\ s # START THEN ValueError
    ELSE IF START \notin Sources(w) THEN ValueError
    ELSE IF \E t \in Targets(w) : t \notin DOMAIN w.nodes /\ t # END THEN ValueError
    ELSE IF strict /\ DeadEnds(w) # {} THEN ValueError
    ELSE "none"

\* a compiled graph that reads the builder's tables when it runs
AfterMutationShared(c, w) ==
    IF c = NoGraph THEN c
    ELSE [nodes |-> w.nodes, edges |-> w.edges, branches |-> w.branches]

\* the compiled graph after a later call on its builder: compile() has
\* copied the tables, so the graph is what it was
AfterMutation(c, w) == c

\* the calls of the model: every node is added with one of the handlers
\* and one of the tool lists, edges run between the nodes, the terminal
\* marker and a name that was never added
AddNodeCalls ==
    {[op |-> "add_node", name |-> n, handler |-> h, tools |-> t] :
        n \in NodeNames, h \in Handlers, t \in ToolLists}
SetEntryPointCalls ==
    {[op |-> "set_entry_point", name |-> n] : n \in NodeNames \cup {GhostNode}}
AddEdgeCalls ==
    {[op |-> "add_edge", source |-> s, target |-> t] :
        s \in NodeNames \cup {GhostNode, END},
        t \in {"agent", GhostNode, END}}
AddConditionalEdgeCalls ==
    {[op |-> "add_conditional_edge", source |-> s,
      condition |-> "should_continue", ends |-> m] :
        s \in {"agent", GhostNode},
        m \in {{"tools", END}, {GhostNode, END}}}
CompileCall == [op |-> "compile"]

\* SimpleReActAgent.define_workflow followed by _build_workflow's compile
DefineWorkflow ==
    << [op |-> "add_node", name |-> "agent", handler |-> "handler_1",
        tools |-> None],
       [op |-> "add_node", name |-> "tools", handler |-> None,
        tools |-> SomeTools],
       [op |-> "set_entry_point", name |-> "agent"],
       [op |-> "add_conditional_edge", source |-> "agent",
        condition |-> "should_continue", ends |-> {"tools", END}],
       [op |-> "add_edge", source |-> "tools", target |-> "agent"],
       CompileCall >>

\* calls made besides those of define_workflow
MaxOps == 1

\* bOps = <<calls of define_workflow made, other calls made>>
Scripted(call) ==
    bOps[1] < Len(DefineWorkflow) /\ call = DefineWorkflow[bOps[1] + 1]
MayCall(call) == Scripted(call) \/ bOps[2] < MaxOps
CountCall(call) ==
    IF Scripted(call) THEN <<bOps[1] + 1, bOps[2]>> ELSE <<bOps[1], bOps[2] + 1>>

\* WorkflowBuilder() and the StateGraph it creates
InitBuilder ==
    /\ EngineIdle /\ RouterIdle /\ MergeIdle /\ ClassifierIdle /\ PairIdle
    /\ TurnsIdle /\ StoreIdle
    /\ builder = [nodes |-> EmptyTable, edges |-> <<>>, entry_point |-> None]
    /\ workflow = [nodes |-> EmptyTable, edges |-> {}, branches |-> {}]
    /\ compiled = NoGraph
    /\ bCall = NoCall
    /\ bOps = <<0, 0>>
    /\ strictEngine \in BOOLEAN

BuilderFrame ==
    /\ UNCHANGED strictEngine
    /\ UNCHANGED <<engineVars, routerVars, mergeVars, classifierVars, pairVars,
                   turnVars, storeVars>>

\* WorkflowBuilder.add_node: the definition is recorded, then the node is
\* handed to the engine, which may refuse it
AddNode ==
    \E call \in AddNodeCalls :
        /\ MayCall(call)
        /\ LET node_def == NodeDefinition(call.name, call.handler, call.tools)
           IN /\ builder' = [builder EXCEPT
                                !.nodes = Put(@, call.name, node_def)]
              /\ \E exc \in GraphAddNode(workflow, call.name, ActionOf(node_def)) :
                    /\ bCall' = [call |-> call, exc |-> exc]
                    /\ workflow' =
                          IF exc = "none"
                          THEN [workflow EXCEPT
                                  !.nodes = Put(@, call.name, ActionOf(node_def))]
                          ELSE workflow
        /\ compiled' = AfterMutation(compiled, workflow')
        /\ bOps' = CountCall(call)
        /\ BuilderFrame

\* WorkflowBuilder.set_entry_point: an edge from the engine's start marker
SetEntryPoint ==
    \E call \in SetEntryPointCalls :
        /\ MayCall(call)
        /\ builder' = [builder EXCEPT !.entry_point = call.name]
        /\ LET exc == GraphAddEdge(workflow, START, call.name)
           IN /\ bCall' = [call |-> call, exc |-> exc]
              /\ workflow' =
                    IF exc = "none"
                    THEN [workflow EXCEPT !.edges = @ \cup {<<START, call.name>>}]
                    ELSE workflow
        /\ compiled' = AfterMutation(compiled, workflow')
        /\ bOps' = CountCall(call)
        /\ BuilderFrame

\* WorkflowBuilder.add_edge
AddEdge ==
    \E call \in AddEdgeCalls :
        /\ MayCall(call)
        /\ builder' = [builder EXCEPT !.edges = Append(@, call)]
        /\ LET exc == GraphAddEdge(workflow, call.source, call.target)
           IN /\ bCall' = [call |-> call, exc |-> exc]
              /\ workflow' =
                    IF exc = "none"
                    THEN [workflow EXCEPT
                            !.edges = @ \cup {<<call.source, call.target>>}]
                    ELSE workflow
        /\ compiled' = AfterMutation(compiled, workflow')
        /\ bOps' = CountCall(call)
        /\ BuilderFrame

\* WorkflowBuilder.add_conditional_edge
AddConditionalEdge ==
    \E call \in AddConditionalEdgeCalls :
        /\ MayCall(call)
        /\ builder' = [builder EXCEPT !.edges = Append(@, call)]
        /\ LET exc == GraphAddConditionalEdges(workflow, call.source,
                                               call.condition)
           IN /\ bCall' = [call |-> call, exc |-> exc]
              /\ workflow' =
                    IF exc = "none"
                    THEN [workflow EXCEPT
                            !.branches = @ \cup
                                {[source |-> call.source,
                                  condition |-> call.condition,
                                  ends |-> call.ends]}]
                    ELSE workflow
        /\ compiled' = AfterMutation(compiled, workflow')
        /\ bOps' = CountCall(call)
        /\ BuilderFrame

\* WorkflowBuilder.compile: the engine validates the graph and, if it is
\* sound, returns a compiled graph holding copies of the tables
Compile ==
    /\ compiled = NoGraph
    /\ MayCall(CompileCall)
    /\ LET exc == Validate(workflow, strictEngine)
       IN /\ bCall' = [call |-> CompileCall, exc |-> exc]
          /\ compiled' =
                IF exc = "none"
                THEN [nodes |-> workflow.nodes, edges |-> workflow.edges,
                      branches |-> workflow.branches]
                ELSE compiled
    /\ bOps' = CountCall(CompileCall)
    /\ UNCHANGED <<builder, workflow>>
    /\ BuilderFrame

NextBuilder ==
    AddNode \/ SetEntryPoint \/ AddEdge \/ AddConditionalEdge \/ Compile

SpecBuilder == InitBuilder /\ [][NextBuilder]_vars

(***************************************************************************)
(* The tool classifier.  A tool's name is the sequence of its words, which *)
(* the name joins with "_"; a prefix pattern such as "get_available_" is   *)
(* the sequence of the words before its closing "_".                       *)
(***************************************************************************)
\* tools in one list given to the classifier
MaxTools == 2

\* the words of a tool's description; a tool may have none
DescriptionOf(name) ==
    CASE name = <<"send", "email">> -> <<"send", "my", "mail">>
      [] name = <<"getaway">> -> <<>>
      [] OTHER -> <<"meeting", "rooms">>

Tool(name) == [name |-> name, description |-> DescriptionOf(name)]

get_available_buildings == <<"get", "available", "buildings">>
get_available_rooms == <<"get", "available", "rooms">>
book_meeting_room == <<"book", "meeting", "room">>
get_user_reservations == <<"get", "user", "reservations">>
cancel_reservation == <<"cancel", "reservation">>
\* names that the default table does not have
LIST_rooms == <<"LIST", "rooms">>
send_email == <<"send", "email">>
getaway == <<"getaway">>

ToolPool ==
    {Tool(n) : n \in {get_available_rooms, book_meeting_room,
                      get_user_reservations, cancel_reservation,
                      LIST_rooms, send_email, getaway}}

Categories == <<"booking", "query", "management">>
Buckets == {"booking", "query", "management", "uncategorized"}

TOOL_PREFIX_PATTERNS ==
    [booking |-> << <<"book">>, <<"reserve">>, <<"get", "available">> >>,
     query |-> << <<"get">>, <<"list">>, <<"search">>, <<"query">> >>,
     management |-> << <<"cancel">>, <<"update">>, <<"delete">>,
                       <<"get", "user">>, <<"my">> >>]

TOOL_CLASSIFICATION_CONFIG ==
    [n \in {get_available_buildings, get_available_rooms, book_meeting_room,
            get_user_reservations, cancel_reservation} |->
        CASE n = get_available_buildings -> <<"booking", "query">>
          [] n = get_available_rooms -> <<"booking", "query">>
          [] n = book_meeting_room -> <<"booking">>
          [] OTHER -> <<"management">>]

\* tables a caller may construct the classifier with; the empty one stands
\* for no table given
CustomConfigs ==
    { EmptyTable,
      [n \in {send_email} |-> <<>>],
      [n \in {send_email, get_available_rooms} |->
          IF n = send_email THEN <<"admin">> ELSE <<"query", "query">>],
      [n \in {send_email, book_meeting_room} |->
          IF n = send_email THEN <<"uncategorized">>
          ELSE <<"management", "booking">>] }

\* "fuzzy" is a strategy name the classifier does not know
Strategies == {"explicit", "prefix", "keyword", "fuzzy"}

\* custom_config or TOOL_CLASSIFICATION_CONFIG
ConfigOf(custom_config) ==
    IF DOMAIN custom_config = {} THEN TOOL_CLASSIFICATION_CONFIG
    ELSE custom_config

\* str.lower on a word
Lower(word) ==
    CASE word = "LIST" -> "list"
      [] OTHER -> word

LowerName(name) == [i \in 1..Len(name) |-> Lower(name[i])]

\* str.startswith for a pattern that ends with "_": the words of the
\* pattern are the first words of the name, and the name goes on after them
StartsWith(name, prefix) ==
    Len(name) > Len(prefix) /\ SubSeq(name, 1, Len(prefix)) = prefix

\* a prefix test on the name as it is written
MatchesAsWritten(name, c) ==
    \E i \in 1..Len(TOOL_PREFIX_PATTERNS[c]) :
        StartsWith(name, TOOL_PREFIX_PATTERNS[c][i])

\* some prefix of category c starts the lower-cased name
Matches(name, c) ==
    \E i \in 1..Len(TOOL_PREFIX_PATTERNS[c]) :
        StartsWith(LowerName(name), TOOL_PREFIX_PATTERNS[c][i])

\* _classify_by_prefix: every category with a matching prefix, once; the
\* order list(set(...)) gives them in does not matter to classify_tools,
\* which appends to one list per category
classify_by_prefix(tool) ==
    SelectSeq(Categories, LAMBDA c : Matches(tool.name, c))

\* the keywords in Latin letters; the words of the model have no others
TOOL_CATEGORY_BY_KEYWORDS ==
    [booking |-> <<"book", "reserve">>,
     query |-> <<"query", "search", "list", "get">>,
     management |-> <<"cancel", "delete", "update", "my">>]

\* the keywords that are part of a lower-cased word of the model; no
\* keyword has a "_" or a blank in it, so a keyword is in the text exactly
\* when it is in one of its words
KeywordsIn(word) ==
    CASE word \in {"get", "getaway"} -> {"get"}
      [] word = "book" -> {"book"}
      [] word = "list" -> {"list"}
      [] word = "cancel" -> {"cancel"}
      [] word = "my" -> {"my"}
      [] OTHER -> {}

\* keyword in f"{tool_name} {description}", both lower-cased
InText(tool, keyword) ==
    \E w \in {tool.name[i] : i \in 1..Len(tool.name)} \cup
              {tool.description[i] : i \in 1..Len(tool.description)} :
        keyword \in KeywordsIn(Lower(w))

\* _classify_by_keyword: every category one of whose keywords is in the text
classify_by_keyword(tool) ==
    SelectSeq(Categories,
              LAMBDA c : \E i \in 1..Len(TOOL_CATEGORY_BY_KEYWORDS[c]) :
                            InText(tool, TOOL_CATEGORY_BY_KEYWORDS[c][i]))

\* a table lookup that keeps the first category only
classify_by_explicit_first(tool, config) ==
    IF tool.name \in DOMAIN config /\ config[tool.name] # <<>>
    THEN <<Head(config[tool.name])>>
    ELSE <<>>

\* _classify_by_explicit: self.config.get(tool_name, [])
classify_by_explicit(tool, config) ==
    IF tool.name \in DOMAIN config THEN config[tool.name] ELSE <<>>

\* _get_tool_categories
get_tool_categories(tool, strategy, config) ==
    IF strategy = "prefix" THEN classify_by_prefix(tool)
    ELSE IF strategy = "keyword" THEN classify_by_keyword(tool)
    ELSE classify_by_explicit(tool, config)

\* the loop body of classify_tools for one tool
RECURSIVE AppendTo(_, _, _)
AppendTo(classified, tool, categories) ==
    IF categories = <<>> THEN classified
    ELSE LET c == Head(categories)
             next == IF c \in DOMAIN classified
                     THEN [classified EXCEPT ![c] = Append(@, tool)]
                     ELSE classified
         IN AppendTo(next, tool, Tail(categories))

RECURSIVE ClassifyFrom(_, _, _, _)
ClassifyFrom(classified, tools, strategy, config) ==
    IF tools = <<>> THEN classified
    ELSE LET tool == Head(tools)
             categories == get_tool_categories(tool, strategy, config)
             next == IF categories = <<>>
                     THEN [classified EXCEPT
                             !["uncategorized"] = Append(@, tool)]
                     ELSE AppendTo(classified, tool, categories)
         IN ClassifyFrom(next, Tail(tools), strategy, config)

\* MCPToolClassifier(strategy, custom_config).classify_tools(tools)
classify_tools(tools, strategy, custom_config) ==
    ClassifyFrom([b \in Buckets |-> <<>>], tools, strategy,
                 ConfigOf(custom_config))

ToolInputs == UNION {[1..n -> ToolPool] : n \in 0..MaxTools}

InitClassifier ==
    /\ EngineIdle /\ RouterIdle /\ MergeIdle /\ BuilderIdle /\ PairIdle
    /\ TurnsIdle /\ StoreIdle
    /\ \E tools \in ToolInputs, strategy \in Strategies,
          custom_config \in CustomConfigs :
         cIn = [tools |-> tools, strategy |-> strategy,
                custom_config |-> custom_config]
    /\ cOut = NoCall

Classify ==
    /\ cOut = NoCall
    /\ cOut' = classify_tools(cIn.tools, cIn.strategy, cIn.custom_config)
    /\ UNCHANGED cIn
    /\ UNCHANGED <<engineVars, routerVars, mergeVars, builderVars, pairVars,
                   turnVars, storeVars>>

NextClassifier == Classify

SpecClassifier == InitClassifier /\ [][NextClassifier]_vars

(***************************************************************************)
(* Two executions of one compiled graph: the agent that src/api.py builds  *)
(* once and every request uses.  Each execution has a state of its own;    *)
(* the model's replies in an execution are fixed when it starts.           *)
(***************************************************************************)
\* replies with tool invocations in one execution of the pair
MaxScript == 1

PairGraph == "LangGraphAgent"

\* the graph LangGraphAgent._build_graph compiles
CompiledReAct ==
    [nodes |-> [agent |-> "call_model", tools |-> "ToolNode"],
     edges |-> {<<START, "agent">>, <<"tools", "agent">>},
     branches |-> {[source |-> "agent", condition |-> "should_continue",
                    ends |-> {"tools", END}]}]

Scripts ==
    UNION {[1..n -> {<<BoundTool>>, <<BogusTool>>}] : n \in 0..MaxScript}

\* chat_with_history after h earlier turns: a new list, the new message
\* appended, handed to the graph
StartRun(h, script) ==
    [state |-> InitialState(PairGraph, h, DefaultUserId),
     cur |-> Entry(PairGraph),
     status |-> "running",
     err |-> "none",
     trace |-> <<>>,
     nextId |-> 2 * h + 2,
     script |-> script,
     turns |-> h,
     given |-> script]

\* the node that follows in the compiled graph
Successor(c, node, st) ==
    IF \E b \in c.branches : b.source = node
    THEN LET lab == Router(PairGraph, node, st)
         IN IF lab \in Exceptions THEN lab
            ELSE Resolve(Mapping(PairGraph, node), lab)
    ELSE CHOOSE t \in DOMAIN c.nodes : <<node, t>> \in c.edges

\* one node execution of a run, on the state st handed to the node
NodeStep(c, run, st) ==
    LET names == IF run.script = <<>> THEN <<>> ELSE Head(run.script)
        upd == IF run.cur = "agent"
               THEN [messages |->
                       <<AIMessage(run.nextId,
                                   IF names = <<>> THEN "answer" ELSE "",
                                   names)>>]
               ELSE LET calls == Last(st["messages"]).calls
                    IN [messages |->
                          Gather(calls, [k \in 1..Len(calls) |-> k])]
        fresh == IF run.cur = "agent" THEN run.nextId + 1 ELSE run.nextId
        st1 == Merge(st, upd, fresh)
        tr == Append(run.trace, run.cur)
        target == Successor(c, run.cur, st1)
        failure == IF target \in Exceptions THEN target
                   ELSE IF LimitReached(tr, target) THEN GraphRecursionError
                   ELSE "none"
    IN [run EXCEPT
          !.state = st1,
          !.nextId = FreshAfter(upd, fresh),
          !.trace = tr,
          !.script = IF run.cur = "agent" /\ run.script # <<>>
                     THEN Tail(run.script) ELSE run.script,
          !.status = IF failure # "none" THEN "error"
                     ELSE IF target = END THEN "done" ELSE "running",
          !.err = failure,
          !.cur = IF failure # "none" THEN run.cur ELSE target]

\* executions that work on one state object
StateSharedBy(rs, i) == rs[1].state

\* the state the engine hands to the nodes of execution i: its own
StateSeenBy(rs, i) == rs[i].state

RECURSIVE RunAlone(_, _)
RunAlone(c, run) ==
    IF run.status # "running" THEN run
    ELSE RunAlone(c, NodeStep(c, run, run.state))

InitPair ==
    /\ EngineIdle /\ RouterIdle /\ MergeIdle /\ ClassifierIdle
    /\ TurnsIdle /\ StoreIdle
    /\ builder = NoGraph
    /\ workflow = NoGraph
    /\ compiled = CompiledReAct
    /\ bCall = NoCall
    /\ bOps = <<0, 0>>
    /\ strictEngine = FALSE
    /\ \E h1, h2 \in 0..MaxHist, s1, s2 \in Scripts :
         runs = <<StartRun(h1, s1), StartRun(h2, s2)>>

\* one node of one of the two executions runs
PairStep ==
    \E i \in DOMAIN runs :
        /\ runs[i].status = "running"
        /\ runs' = [runs EXCEPT
                       ![i] = NodeStep(compiled, runs[i], StateSeenBy(runs, i))]
        /\ UNCHANGED <<engineVars, routerVars, mergeVars, builderVars,
                       classifierVars, turnVars, storeVars>>

NextPair == PairStep

SpecPair == InitPair /\ [][NextPair]_vars

(***************************************************************************)
(* The reservation store of the meeting-room tools.  RESERVATIONS_DB is    *)
(* one list of the process, read and written by book_meeting_room and      *)
(* cancel_reservation.  SpecStore runs the calls one at a time; SpecRace   *)
(* runs the two book_meeting_room calls of one batch on the threads of the *)
(* tool node, each call in two steps: the checks, then the append.         *)
(* Titles, building names and creation times are left out.                 *)
(***************************************************************************)
\* calls of the two tools in one behaviour of the store
MaxBookings == 2

BUILDINGS_DB == {"A", "B", "C"}

ROOMS_DB == {"A-101", "A-201", "A-202", "A-301", "B-101", "B-201", "B-301",
             "C-101", "C-201"}

\* the room ids, dates and times a model may put in a call
RoomIds == {"A-101", "a-101", "A-999", "Z-101"}
DateStrings == {"2026-12-01", "2026-12-1", "2025-12-16", "12/01"}
TimeStrings == {"09:00", "9:30", "10:00", "10:30", "10am"}
StoreUsers == {"user001", "alice"}

\* room_id.upper()
UpperOf(room_id) == IF room_id = "a-101" THEN "A-101" ELSE room_id

\* room_id.split("-")[0].upper() if "-" in room_id else ""
BuildingCode(room_id) ==
    CASE room_id \in {"A-101", "a-101", "A-999"} -> "A"
      [] room_id = "B-201" -> "B"
      [] room_id = "Z-101" -> "Z"
      [] OTHER -> ""

\* the strings datetime.strptime(date, "%Y-%m-%d") accepts: month and day
\* may be written without the leading zero
DateFormatOk(date) ==
    date \in {"2026-12-01", "2026-12-1", "2025-12-16", "2025-12-17"}

\* the day a date string is parsed to, as the number yyyymmdd
DayOf(date) ==
    CASE date \in {"2026-12-01", "2026-12-1"} -> 20261201
      [] date = "2025-12-16" -> 20251216
      [] date = "2025-12-17" -> 20251217

\* datetime.now().date(): a day after the stored examples
Today == 20260101

\* the strings datetime.strptime(time, "%H:%M") accepts
TimeFormatOk(time) ==
    time \in {"09:00", "9:30", "10:00", "10:30", "14:00", "16:00"}

\* the minute of the day a time string is parsed to
MinutesOf(time) ==
    CASE time = "09:00" -> 540
      [] time = "9:30" -> 570
      [] time = "10:00" -> 600
      [] time = "10:30" -> 630
      [] time = "14:00" -> 840
      [] time = "16:00" -> 960

\* the two reservations the store starts with (RES-001 and RES-002 are the
\* ids 1 and 2)
RESERVATIONS_DB ==
    << [id |-> 1, user_id |-> "user001", room_id |-> "A-101",
        date |-> "2025-12-16", start_time |-> "09:00", end_time |-> "10:00"],
       [id |-> 2, user_id |-> "user001", room_id |-> "B-201",
        date |-> "2025-12-17", start_time |-> "14:00", end_time |-> "16:00"] >>

BookRequests ==
    [room_id : RoomIds, date : DateStrings, start_time : TimeStrings,
     end_time : TimeStrings, user_id : StoreUsers]

\* the validations of book_meeting_room, in their order: the result of the
\* first one that fails, or "ok"
CheckRequest(req) ==
    IF BuildingCode(req.room_id) \notin BUILDINGS_DB THEN "invalid_room"
    ELSE IF UpperOf(req.room_id) \notin ROOMS_DB THEN "room_not_found"
    ELSE IF ~DateFormatOk(req.date) THEN "bad_date_format"
    ELSE IF DayOf(req.date) < Today THEN "past_date"
    ELSE IF ~TimeFormatOk(req.start_time) \/ ~TimeFormatOk(req.end_time)
         THEN "bad_time_format"
    ELSE IF MinutesOf(req.start_time) >= MinutesOf(req.end_time)
         THEN "end_not_after_start"
    ELSE "ok"

\* the scan of the store: a reservation of the same room whose date is the
\* same string and whose time interval overlaps the request's
Taken(db, req) ==
    \E i \in 1..Len(db) :
        /\ UpperOf(db[i].room_id) = UpperOf(req.room_id)
        /\ db[i].date = req.date
        /\ ~ \/ MinutesOf(req.end_time) <= MinutesOf(db[i].start_time)
             \/ MinutesOf(req.start_time) >= MinutesOf(db[i].end_time)

NewReservation(req, id) ==
    [id |-> id, user_id |-> req.user_id, room_id |-> UpperOf(req.room_id),
     date |-> req.date, start_time |-> req.start_time,
     end_time |-> req.end_time]

book_meeting_room_call(db, req, id) ==
    LET checked == CheckRequest(req)
    IN IF checked # "ok" THEN [db |-> db, result |-> checked]
       ELSE IF Taken(db, req) THEN [db |-> db, result |-> "taken"]
       ELSE [db |-> Append(db, NewReservation(req, id)), result |-> "booked"]

\* list.pop(index)
Pop(db, index) ==
    [i \in 1..(Len(db) - 1) |-> IF i < index THEN db[i] ELSE db[i + 1]]

cancel_reservation_call(db, reservation_id, user_id) ==
    LET found == {i \in 1..Len(db) : db[i].id = reservation_id}
    IN IF found = {} THEN [db |-> db, result |-> "not_found"]
       ELSE LET index == Min(found)
            IN IF db[index].user_id # user_id
               THEN [db |-> db, result |-> "not_owner"]
               ELSE IF DayOf(db[index].date) < Today
               THEN [db |-> db, result |-> "expired"]
               ELSE [db |-> Pop(db, index), result |-> "cancelled"]

\* the id of the reservation the next call makes: a fresh one
NewId == Len(bookings) + Len(RESERVATIONS_DB) + 1

StoreFrame ==
    UNCHANGED <<engineVars, routerVars, mergeVars, builderVars, classifierVars,
                pairVars, turnVars>>

OthersIdle ==
    /\ EngineIdle /\ RouterIdle /\ MergeIdle /\ BuilderIdle /\ ClassifierIdle
    /\ PairIdle /\ TurnsIdle

InitStore ==
    /\ OthersIdle
    /\ store = RESERVATIONS_DB
    /\ bookings = <<>>

BookMeetingRoom ==
    /\ Len(bookings) < MaxBookings
    /\ \E req \in BookRequests :
         LET out == book_meeting_room_call(store, req, NewId)
         IN /\ store' = out.db
            /\ bookings' = Append(bookings, [op |-> "book_meeting_room",
                                             result |-> out.result])
    /\ StoreFrame

CancelReservation ==
    /\ Len(bookings) < MaxBookings
    /\ \E reservation_id \in 1..NewId, user_id \in StoreUsers :
         LET out == cancel_reservation_call(store, reservation_id, user_id)
         IN /\ store' = out.db
            /\ bookings' = Append(bookings, [op |-> "cancel_reservation",
                                             result |-> out.result])
    /\ StoreFrame

NextStore == BookMeetingRoom \/ CancelReservation

SpecStore == InitStore /\ [][NextStore]_vars

\* the calls of one batch: requests of one user for room A-101
RaceRequests ==
    {req \in BookRequests :
        /\ req.user_id = "alice"
        /\ req.room_id \in {"A-101", "a-101"}
        /\ req.date \in {"2026-12-01", "12/01"}}

Invocation(req) ==
    [op |-> "book_meeting_room", req |-> req, pc |-> "called", result |-> NoLabel]

InitRace ==
    /\ OthersIdle
    /\ store = RESERVATIONS_DB
    /\ \E r1, r2 \in RaceRequests : bookings = <<Invocation(r1), Invocation(r2)>>

\* a thread runs the validations and the scan of the store
ScanStore(p) ==
    /\ bookings[p].pc = "called"
    /\ LET req == bookings[p].req
           checked == CheckRequest(req)
       IN bookings' =
            [bookings EXCEPT ![p] =
                IF checked # "ok" THEN [@ EXCEPT !.pc = "done", !.result = checked]
                ELSE IF Taken(store, req)
                     THEN [@ EXCEPT !.pc = "done", !.result = "taken"]
                     ELSE [@ EXCEPT !.pc = "scanned"]]
    /\ store' = store
    /\ StoreFrame

\* the thread appends its reservation to the store as it is by then
AppendReservation(p) ==
    /\ bookings[p].pc = "scanned"
    /\ store' = Append(store, NewReservation(bookings[p].req,
                                             Len(RESERVATIONS_DB) + p))
    /\ bookings' = [bookings EXCEPT ![p] = [@ EXCEPT !.pc = "done",
                                                     !.result = "booked"]]
    /\ StoreFrame

NextRace == \E p \in {1, 2} : ScanStore(p) \/ AppendReservation(p)

SpecRace == InitRace /\ [][NextRace]_vars

Overlapping(r1, r2) ==
    /\ r1.room_id = r2.room_id
    /\ DayOf(r1.date) = DayOf(r2.date)
    /\ MinutesOf(r1.start_time) < MinutesOf(r2.end_time)
    /\ MinutesOf(r2.start_time) < MinutesOf(r1.end_time)

NoDoubleBooking(db) ==
    \A i, j \in 1..Len(db) : i # j => ~Overlapping(db[i], db[j])

\* C39: after every call of book_meeting_room or cancel_reservation, the
\* calls running one at a time, no two reservations of the store for the
\* same room and date overlap in time, and a call that returns an error
\* leaves the store as it was.
C39_NoDoubleBooking ==
    [][ Len(bookings') > Len(bookings)
          => /\ NoDoubleBooking(store')
             /\ bookings'[Len(bookings')].result \notin {"booked", "cancelled"}
                  => store' = store ]_vars

\* C40: when two book_meeting_room calls for the same room and date with
\* overlapping times run concurrently, at most one of them succeeds, and
\* the store never holds two overlapping reservations.
C40_NoDoubleBookingConcurrent ==
    /\ NoDoubleBooking(store)
    /\ (/\ Len(bookings) = 2
        /\ bookings[1].result = "booked"
        /\ bookings[2].result = "booked")
          => ~Overlapping(NewReservation(bookings[1].req, 0),
                          NewReservation(bookings[2].req, 0))

(***************************************************************************)
(* Properties of the classifier (SpecClassifier).                          *)
(***************************************************************************)
Classified == cOut # NoCall

InBucket(b, tool) == \E i \in 1..Len(cOut[b]) : cOut[b][i] = tool

Listed(categories) == {categories[i] : i \in 1..Len(categories)}

\* the tools of the input whose names the table in use has
TabledTools ==
    {cIn.tools[i] : i \in 1..Len(cIn.tools)} \cap
        {Tool(n) : n \in DOMAIN ConfigOf(cIn.custom_config)}

\* C27 as stated: under the explicit strategy, each tool whose name is in
\* the table is in exactly the buckets the table lists for it and in no
\* other bucket.
C27_ExplicitExactlyListed ==
    (Classified /\ cIn.strategy = "explicit") =>
        \A tool \in TabledTools :
            LET listed == Listed(ConfigOf(cIn.custom_config)[tool.name])
            IN /\ \A b \in listed : b \in Buckets /\ InBucket(b, tool)
               /\ \A b \in Buckets \ listed : ~InBucket(b, tool)

\* C27: under the explicit strategy, each tool whose name is in the table
\* is in exactly those of the four buckets that the table lists for it,
\* and in uncategorized besides when the table lists no category for it.
C27_ExplicitListedBuckets ==
    (Classified /\ cIn.strategy = "explicit") =>
        \A tool \in TabledTools :
            LET listed == Listed(ConfigOf(cIn.custom_config)[tool.name])
            IN \A b \in Buckets :
                 InBucket(b, tool) <=>
                    \/ b \in listed
                    \/ listed = {} /\ b = "uncategorized"

C27_Witness ==
    /\ Classified
    /\ cIn.strategy = "explicit"
    /\ cIn.custom_config = EmptyTable
    /\ InBucket("booking", Tool(get_available_rooms))
    /\ InBucket("query", Tool(get_available_rooms))
    /\ ~InBucket("management", Tool(get_available_rooms))
    /\ ~InBucket("uncategorized", Tool(get_available_rooms))

Occurrences(seq, x) == Cardinality({i \in 1..Len(seq) : seq[i] = x})

\* the lower-cased name starts with a prefix of the category, the closing
\* "_" of the prefix included
StartsWithPrefixOf(name, c) ==
    \E p \in Listed(TOOL_PREFIX_PATTERNS[c]) :
        /\ Len(name) > Len(p)
        /\ \A i \in 1..Len(p) : Lower(name[i]) = p[i]

C36_NoToolDropped ==
    Classified =>
        \A k \in 1..Len(cIn.tools) :
            LET tool == cIn.tools[k]
            IN /\ \E b \in Buckets : InBucket(b, tool)
               /\ InBucket("uncategorized", tool) <=>
                    \A c \in Listed(Categories) : ~InBucket(c, tool)

(***************************************************************************)
(* Properties of a streamed turn (SpecStream).                             *)
(***************************************************************************)
\* the node executions that have completed: all those of the trace, but
\* for a last one whose router or mapping raised
Completed ==
    IF status = "error" /\ err # GraphRecursionError /\ partial # NoPartial
    THEN Len(trace) - 1
    ELSE Len(trace)

\* the event carries what the partial update produced
Carries(e, node, upd) ==
    /\ e.node = node
    /\ e.intent = ValueOf(upd, "intent")
    /\ e.current_agent = ValueOf(upd, "current_agent")
    /\ Len(e.messages) = Len(Reported(upd))
    /\ \A i \in 1..Len(e.messages) :
          e.messages[i].content = Reported(upd)[i].content
    /\ LET results == SelectSeq(Reported(upd), LAMBDA m : m.role = "tool")
           calls == SelectSeq(Reported(upd), LAMBDA m : m.role = "ai")
       IN /\ Len(e.tool_results) = Len(results)
          /\ \A i \in 1..Len(results) :
                  e.tool_results[i].name = results[i].name
          /\ Len(calls) <= 1
          /\ IF calls = <<>> THEN e.tool_calls = <<>>
             ELSE /\ Len(e.tool_calls) = Len(calls[1].calls)
                  /\ \A j \in 1..Len(e.tool_calls) :
                        e.tool_calls[j].name = calls[1].calls[j].name

RECURSIVE MergeAll(_, _)
MergeAll(st, chunks) ==
    IF chunks = <<>> THEN st
    ELSE MergeAll(Merge(st, Head(chunks).update, FreeId(st["messages"])),
                  Tail(chunks))

C29_UserIdAsGiven ==
    state["user_id"] =
        IF givenUserId # None THEN givenUserId ELSE DefaultUserId

\* C29: in every state of a turn, the first and the final one included,
\* user_id is the caller's user_id when a non-empty one was passed and the
\* agent's default otherwise; it is never unset and no node changes it.
C29_UserIdDefaultedAndKept ==
    /\ state["user_id"] # None
    /\ state["user_id"] =
          IF givenUserId \notin {None, ""} THEN givenUserId ELSE DefaultUserId

C29_Witness ==
    /\ status = "done"
    /\ Len(trace) >= 3
    /\ givenUserId = "alice"
    /\ state["user_id"] = "alice"

(***************************************************************************)
(* Properties of the builder (SpecBuilder).                                *)
(***************************************************************************)
\* the call a step has made
Called(op) == bOps' # bOps /\ bCall'.call.op = op

\* C21: add_node with a name that is already registered in the builder
\* fails with a DuplicateNodeError and leaves the registered definition as
\* it was: no second definition takes the place of the first.
C21_DuplicateNodeRejected ==
    [][ (Called("add_node") /\ bCall'.call.name \in DOMAIN builder.nodes)
          => /\ bCall'.exc = DuplicateNodeError
             /\ builder'.nodes = builder.nodes ]_vars

\* an edge or a mapping of the graph names a node that is not in it
BadReference(w) ==
    \E n \in (Sources(w) \cup Targets(w)) \ {START, END} : n \notin DOMAIN w.nodes

\* C22: compile() fails with a GraphValidationError and produces no
\* compiled graph whenever the entry point has not been set, or the entry
\* point, an edge's source or target, or a mapping's target names a node
\* that was never added.
C22_CompileValidatesReferences ==
    [][ (Called("compile")
            /\ (builder.entry_point = None \/ BadReference(workflow)))
          => /\ bCall'.exc = GraphValidationError
             /\ compiled' = NoGraph ]_vars

C22_Witness ==
    /\ bCall = [call |-> CompileCall, exc |-> GraphValidationError]
    /\ compiled = NoGraph
    /\ builder.entry_point = "agent"
    /\ "agent" \in DOMAIN workflow.nodes
    /\ BadReference(workflow)

\* C23: compile() fails with a GraphValidationError whenever some
\* registered node has no outgoing edge, neither unconditional nor
\* conditional.
C23_CompileRejectsDeadEnd ==
    [][ (Called("compile") /\ DeadEnds(workflow) # {})
          => /\ bCall'.exc = GraphValidationError
             /\ compiled' = NoGraph ]_vars

Mutators == {"add_node", "add_edge", "add_conditional_edge", "set_entry_point"}

C30_ToolNodeIffNoHandler ==
    [][ (Called("add_node") /\ bCall'.call.name \notin DOMAIN builder.nodes)
          => LET c == bCall'.call
             IN /\ (c.handler = None /\ c.tools # None)
                     => /\ builder'.nodes[c.name].is_tool_node
                        /\ bCall'.exc = "none"
                        /\ workflow'.nodes[c.name] = "ToolNode"
                /\ c.handler # None
                     => /\ ~builder'.nodes[c.name].is_tool_node
                        /\ bCall'.exc = "none"
                        /\ workflow'.nodes[c.name] = c.handler ]_vars

\* the builder's node table names the nodes of the graph under
\* construction, each with the same kind
TablesAgree(b, w) ==
    /\ DOMAIN b.nodes = DOMAIN w.nodes
    /\ \A n \in DOMAIN b.nodes :
          b.nodes[n].is_tool_node <=> w.nodes[n] = "ToolNode"

\* C38: when add_node fails, the builder's node table is what it was
\* before the call, and after every call the builder's node table names
\* the same nodes, with the same kind, as the graph under construction.
C38_FailedAddNodeChangesNothing ==
    [][ Called("add_node")
          => /\ bCall'.exc # "none" => builder'.nodes = builder.nodes
             /\ TablesAgree(builder', workflow') ]_vars

(***************************************************************************)
(* Properties of one turn (Spec).                                          *)
(***************************************************************************)
Messages == state["messages"]

Count(node) == Cardinality({i \in 1..Len(trace) : trace[i] = node})

\* C1: every step of every graph leaves the transcript it found as a prefix
\* of the transcript it leaves, so no entry is removed, replaced or reordered
\* and the length never decreases.
C1_AppendOnly == [][IsPrefix(state["messages"], state'["messages"])]_vars

C1_Witness ==
    /\ initLen = 3
    /\ Len(trace) >= 3
    /\ Len(Messages) >= initLen + 4

Alternating ==
    \A i \in 1..Len(trace) : trace[i] = IF i % 2 = 1 THEN "agent" ELSE "tools"

SingleInvocations ==
    \A i \in 1..Len(Messages) : Len(Messages[i].calls) <= 1

LoopShape ==
    /\ status = "done"
    /\ Count("agent") = ToolReplies + 1
    /\ Count("tools") = ToolReplies
    /\ Alternating
    /\ SingleInvocations => Len(Messages) = initLen + 2 * ToolReplies + 1

C4_UnmappedLabelFails ==
    (/\ trace # <<>>
     /\ Last(trace) \notin ToolNodes
     /\ label \notin Exceptions)
    => /\ label = Router(graph, Last(trace), state)
       /\ label \notin DOMAIN Mapping(graph, Last(trace))
            => (status = "error" /\ err = RoutingError /\ cur = Last(trace))

C4_Witness ==
    /\ graph = "RoutedWorkflow"
    /\ trace = <<"supervisor">>
    /\ label = "query_agent"
    /\ label \notin edgeKeys
    /\ status = "error"
    /\ err = RoutingError

Shapes3(v) == {Bare(v), Fenced(v), JsonFenced(v)}
Shapes4(v) == Shapes3(v) \cup {JsonFencedInProse(v)}

DecidedPartial(d) ==
    [intent |-> d.intent,
     current_agent |-> IF d.agent = Absent THEN IntentAgentName(d.intent) ELSE d.agent]

\* C5: for every reply holding a decision object with an intent other than
\* "unclear", bare or in an unlabeled or json-labeled fence, the supervisor
\* returns the partial {intent, current_agent} of that decision and no
\* messages, so the transcript is unchanged.
C5_DecisionParsed ==
    \A v \in JsonObjects :
        (reply \in Shapes3(v) /\ Decision[v].intent \notin {Absent, "unclear"})
        => /\ partial = DecidedPartial(Decision[v])
           /\ Len(Messages) = initLen

\* C6: a decision with intent "unclear" makes the supervisor append exactly
\* one assistant message, carrying the decision's clarification_needed text
\* or the default question, and leaves intent None in the merged state.
C6_UnclearAsksBack ==
    \A v \in JsonObjects :
        (reply \in Shapes4(v) /\ Decision[v].intent = "unclear")
        => /\ trace = <<"supervisor">>
           /\ Len(Messages) = initLen + 1
           /\ Last(Messages).role = "ai"
           /\ Last(Messages).calls = <<>>
           /\ Last(Messages).content =
                 IF Decision[v].clarification_needed = Absent
                 THEN DefaultClarification
                 ELSE Decision[v].clarification_needed
           /\ state["intent"] = None

C6_Witness ==
    /\ reply = Bare("d_unclear_c")
    /\ Len(Messages) = initLen + 1
    /\ Last(Messages).content = "Which service?"
    /\ state["intent"] = None
    /\ status = "done"

\* a reply without any JSON in it
NoJson(r) == \A i \in 1..Len(r) : r[i] \in {PROSE, WS, FENCE, JSONLABEL, BadJson}

\* C7: a reply that is not parsable as structured data makes the supervisor
\* return, without raising, the default partial (intent "query",
\* current_agent "query_agent") and append no message.
C7_UnparsableFallsBack ==
    (reply # NoReply /\ NoJson(reply))
    => /\ trace = <<"supervisor">>
       /\ partial = [intent |-> "query", current_agent |-> "query_agent"]
       /\ state["intent"] = "query"
       /\ state["current_agent"] = "query_agent"
       /\ Len(Messages) = initLen

C7_Witness ==
    /\ reply = <<PROSE, FENCE, PROSE>>
    /\ partial = [intent |-> "query", current_agent |-> "query_agent"]
    /\ cur = "query_agent"
    /\ status = "running"

\* C8: a decision object without the intent field is treated as a parse
\* failure: default partial (query / query_agent), no message appended.
C8_MissingIntentFallsBack ==
    reply \in Shapes4("d_nointent")
    => /\ partial = [intent |-> "query", current_agent |-> "query_agent"]
       /\ Len(Messages) = initLen

\* C9: whatever the reply, the supervisor node returns a partial update and
\* raises nothing.
C9_SupervisorNeverRaises ==
    reply # NoReply => (partial # NoPartial /\ trace = <<"supervisor">>)

RouteOf(intent) ==
    CASE intent = "booking" -> "booking_agent"
      [] intent = "query" -> "query_agent"
      [] intent = "management" -> "management_agent"
      [] OTHER -> END

\* C10: after the supervisor node the next node depends on intent alone:
\* booking, query and management go to their specialist and every other
\* value to the terminal marker; a router made by create_intent_router
\* returns mapping[intent] for a key and its default otherwise.
C10_IntentRouting ==
    (trace = <<"supervisor">>)
    => /\ graph \in {"MeetingRoomAgent", "MeetingRoomAgentV2"}
            => /\ label = RouteOf(state["intent"])
               /\ IF label = END THEN status = "done" /\ cur = END
                  ELSE status = "running" /\ cur = label
       /\ graph = "RoutedWorkflow"
            => label = IF state["intent"] \in {"booking", "query", "management"}
                       THEN RouteOf(state["intent"])
                       ELSE routerDefault

C10_Witness ==
    /\ graph = "MeetingRoomAgent"
    /\ trace = <<"supervisor">>
    /\ state["intent"] = "cancel"
    /\ label = END
    /\ status = "done"

(***************************************************************************)
(* Properties of successive turns (SpecTurns).                             *)
(***************************************************************************)
\* C32: every later turn of an agent starts with intent, current_agent and
\* context None, whatever state the turn before ended in; its transcript
\* is the new user message after a history the caller supplied (none, the
\* list it holds, or the transcript the previous call returned).
C32_FreshStatePerTurn ==
    [][ turns' = turns + 1
          => /\ \A k \in {"intent", "current_agent", "context"} : state'[k] = None
             /\ LET msgs == state'["messages"]
                IN /\ msgs[Len(msgs)] = HumanMessage(nextId' - 1)
                   /\ SubSeq(msgs, 1, Len(msgs) - 1)
                         \in {<<>>, callerHistory, state["messages"]} ]_vars

\* a second turn of MeetingRoomAgent starts from the transcript of a first
\* turn in which a specialist used its tools
C32_Witness ==
    /\ graph = "MeetingRoomAgent"
    /\ turns = 1
    /\ trace = <<>>
    /\ initLen = 5
    /\ state["messages"][3].role = "tool"
    /\ state["intent"] = None

(***************************************************************************)
(* Properties of the routers on their own (SpecRouters).                   *)
(***************************************************************************)
\* C3: every tool-call loop router, factory-made or hand-written, returns
\* the tool node's label when the last message has pending tool invocations,
\* the terminal label when it has none, and the terminal label when the
\* transcript is empty.
C3_ToolLoopRouter ==
    rRouter # NoRouter
    => rOut = IF rMessages # <<>> /\ HasToolCalls(Last(rMessages))
              THEN rRouter.tools
              ELSE rRouter.end

(***************************************************************************)
(* Properties of the supervisor graphs, the merge and the tool nodes       *)
(* within one turn (Spec).                                                 *)
(***************************************************************************)
BuiltSupervisorGraphs == {"MeetingRoomAgent", "MeetingRoomAgentV2"}

\* the transcript the graph was invoked with
InitialMessages == SubSeq(Messages, 1, initLen)

\* the supervisor has read the reply as a decision with intent "unclear"
DecidedUnclear ==
    \E v \in JsonObjects :
        /\ reply \in Shapes4(v)
        /\ JsonLoads(Strip(StripFences(reply))) = v
        /\ Get(Decision[v], "intent", "unclear") = "unclear"

\* C11: in the supervisor graph a decision "unclear" ends the turn right
\* after the supervisor node: no specialist and no tool node runs, and the
\* final transcript is the initial one plus the one clarification message.
C11_UnclearHaltsTurn ==
    (graph \in BuiltSupervisorGraphs /\ DecidedUnclear)
    => /\ status = "done"
       /\ cur = END
       /\ trace = <<"supervisor">>
       /\ Len(Messages) = initLen + 1
       /\ InitialMessages =
             InitialState(graph, (initLen - 1) \div 2, state["user_id"])["messages"]
       /\ Last(Messages).role = "ai"
       /\ Last(Messages).calls = <<>>

C11_Witness ==
    /\ graph = "MeetingRoomAgentV2"
    /\ reply = JsonFenced("d_unclear")
    /\ initLen = 3
    /\ status = "done"
    /\ trace = <<"supervisor">>
    /\ Last(Messages).content = DefaultClarification

\* C12: every node execution replaces each field other than messages that
\* its partial contains by the partial's value and leaves every field the
\* partial does not contain as it was; a specialist node leaves intent,
\* user_id and context unchanged, a tool node every field except messages.
C12_LastWriteWinsFrame ==
    [][trace' # trace =>
        /\ \A k \in DOMAIN state \ {"messages"} :
              state'[k] = IF k \in DOMAIN partial' THEN partial'[k] ELSE state[k]
        /\ Last(trace') \in Specialists =>
              /\ DOMAIN partial' = {"messages", "current_agent"}
              /\ \A k \in {"intent", "user_id", "context"} : state'[k] = state[k]
        /\ Last(trace') \in ToolNodes =>
              /\ DOMAIN partial' = {"messages"}
              /\ \A k \in DOMAIN state \ {"messages"} : state'[k] = state[k]]_vars

C12_Witness ==
    /\ graph = "MeetingRoomAgent"
    /\ trace = <<"supervisor", "booking_agent", "booking_tools">>
    /\ reply = NoReply
    /\ state["intent"] = "booking"
    /\ state["current_agent"] = "booking_agent"
    /\ state["user_id"] = "alice"
    /\ state["context"] = None

\* C15: a tool node run on a state whose last assistant message carries n
\* pending tool invocations appends exactly n tool-result messages, the
\* i-th one referencing the identifier and tool name of the i-th
\* invocation, whatever the order in which the calls finish.
C15_ToolResultsInOrder ==
    [][(Running /\ cur \in ToolNodes) =>
        LET calls == Last(Messages).calls
            n == Len(calls)
        IN /\ Last(Messages).role = "ai"
           /\ finishOrder' \in Orders(n)
           /\ Len(state'["messages"]) = Len(Messages) + n
           /\ IsPrefix(Messages, state'["messages"])
           /\ \A i \in 1..n :
                 LET res == state'["messages"][Len(Messages) + i]
                 IN /\ res.role = "tool"
                    /\ res.ref = calls[i].cid
                    /\ res.name = calls[i].name]_vars

C15_Witness ==
    /\ trace # <<>>
    /\ Last(trace) \in ToolNodes
    /\ finishOrder = <<2, 1>>
    /\ Len(Messages) = initLen + 3
    /\ Messages[initLen + 1].calls[1].name # Messages[initLen + 1].calls[2].name
    /\ Messages[initLen + 2].ref = Messages[initLen + 1].calls[1].cid
    /\ Messages[initLen + 3].ref = Messages[initLen + 1].calls[2].cid

\* the batch the last tool node ran, and its results
LastBatch == Messages[Len(Messages) - Len(partial["messages"])].calls
LastResults == partial["messages"]

\* every invocation of the last batch has its own result: an error for an
\* unknown name, the normal result for a bound tool
EachCallAnswered ==
    /\ Len(LastResults) = Len(LastBatch)
    /\ \A i \in 1..Len(LastBatch) :
          /\ LastResults[i].role = "tool"
          /\ LastResults[i].content =
                IF LastBatch[i].name = BoundTool THEN "result"
                ELSE "Error: not a valid tool"
    /\ SubSeq(Messages, Len(Messages) - Len(LastBatch) + 1, Len(Messages)) =
          AssignIds(LastResults, Last(Messages).id - Len(LastBatch) + 1)

UnknownInLastBatch == \E i \in 1..Len(LastBatch) : LastBatch[i].name = BogusTool

\* C16 as stated: an invocation whose tool name the tool node does not know
\* yields an error-bearing tool result, every other invocation of the batch
\* yields its normal result, the node does not abort and the agent node runs
\* next, wherever in the turn the batch comes.
C16_UnknownToolIsolatedAlways ==
    (trace # <<>> /\ Last(trace) \in ToolNodes /\ UnknownInLastBatch)
    => /\ EachCallAnswered
       /\ status = "running"
       /\ cur = AgentOf(Last(trace))

\* C16 amended: the results are as stated and are merged into the
\* transcript; the agent node runs next unless this tool node was the last
\* node execution the step limit admits, in which case the turn fails with
\* the step-limit error.
C16_UnknownToolIsolated ==
    (trace # <<>> /\ Last(trace) \in ToolNodes)
    => /\ EachCallAnswered
       /\ IF Len(trace) < RecursionLimit
          THEN status = "running" /\ cur = AgentOf(Last(trace))
          ELSE status = "error" /\ err = GraphRecursionError

C16_Witness ==
    /\ trace = <<"supervisor", "query_agent", "query_tools">>
    /\ Len(LastBatch) = 2
    /\ LastBatch[1].name = BogusTool
    /\ LastBatch[2].name = BoundTool
    /\ LastResults[1].content = "Error: not a valid tool"
    /\ LastResults[2].content = "result"
    /\ cur = "query_agent"

\* C17: when a node raises, the turn ends with an error and the transcript
\* the caller holds (the history list it passed in, the stored session
\* history) is what it was before the turn: no message of the failed turn,
\* the new user message included, is in it.
C17_NoCommitOnFailure ==
    status = "error" => callerHistory = HistoryBefore((initLen - 1) \div 2)

\* C37: chat(message, history) of every agent class leaves the list the
\* caller passed in unchanged, at every point of the turn, exactly as
\* chat_with_history does: the list holds the messages of the earlier
\* turns and nothing else.
C37_CallerHistoryNotMutated ==
    entry \in {"chat", "chat_with_history"}
        => callerHistory = HistoryBefore((initLen - 1) \div 2)

\* C33: in every state of a MeetingRoomAgent turn the intent is None or one
\* of booking, query, management, whatever intent the supervisor's decision
\* object holds.
C33_IntentDomain ==
    graph = "MeetingRoomAgent"
        => state["intent"] \in {None, "booking", "query", "management"}

\* the graphs the agent classes build
BuiltGraphs == {"LangGraphAgent", "SimpleReActAgent", "MeetingRoomAgent",
                "SimpleBookingAgent", "MeetingRoomAgentV2"}

\* C34: in every graph an agent class builds, the label the router of the
\* node just executed returned is a key of that edge's mapping, and no turn
\* ends with a routing error.
C34_MappingsCoverRouters ==
    graph \in BuiltGraphs
        => /\ err # RoutingError
           /\ (trace # <<>> /\ label \notin Exceptions \cup {NoLabel})
                 => label \in DOMAIN Mapping(graph, Last(trace))

\* a specialist of MeetingRoomAgentV2 has asked for tools and its router's
\* label has been resolved to its tool node
C34_Witness ==
    /\ graph = "MeetingRoomAgentV2"
    /\ Len(trace) = 2
    /\ Last(trace) = "query_agent"
    /\ label = "query_tools"
    /\ cur = "query_tools"
    /\ err = "none"

\* the nodes a turn may run once the supervisor has routed to specialist x
OwnNodes(x) == {x, ToolsOf(x)}

\* C35: in a supervisor graph the supervisor runs first and only once; the
\* node after it is a specialist, and every later node of the turn, the
\* one about to run included, is that specialist or its own tool node.
C35_SpecialistIsolation ==
    (graph \in BuiltSupervisorGraphs /\ trace # <<>>)
        => /\ trace[1] = "supervisor"
           /\ \A i \in 2..Len(trace) :
                 /\ trace[2] \in Specialists
                 /\ trace[i] \in OwnNodes(trace[2])
           /\ status = "running"
                 => IF Len(trace) = 1 THEN cur \in Specialists
                    ELSE cur \in OwnNodes(trace[2])

\* a specialist has run twice around its own tool node
C35_Witness ==
    /\ graph = "MeetingRoomAgent"
    /\ Len(trace) >= 4
    /\ SubSeq(trace, 1, 4) =
          <<"supervisor", "booking_agent", "booking_tools", "booking_agent">>

\* the router of the last node returned a label that resolves to the
\* terminal marker
EndResolved ==
    /\ trace # <<>>
    /\ Last(trace) \notin ToolNodes
    /\ label \in DOMAIN Mapping(graph, Last(trace))
    /\ Mapping(graph, Last(trace))[label] = END

\* every tool-node execution so far is followed by its agent node, or the
\* agent node is due, or the step limit has ended the turn
ToolThenAgent ==
    /\ \A i \in 1..(Len(trace) - 1) :
          trace[i] \in ToolNodes => trace[i + 1] = AgentOf(trace[i])
    /\ (trace # <<>> /\ Last(trace) \in ToolNodes)
          => \/ status = "running" /\ cur = AgentOf(Last(trace))
             \/ status = "error" /\ err = GraphRecursionError

C19_StepLimit ==
    /\ Len(trace) <= RecursionLimit
    /\ Running => Len(trace) < RecursionLimit
    /\ (graph \in ReactGraphs /\ ToolReplies > StepLimitK)
         => (status = "error" /\ err = GraphRecursionError)
    /\ err = GraphRecursionError => (status = "error" /\ Len(trace) = RecursionLimit)

C19_Witness ==
    /\ graph = "LangGraphAgent"
    /\ status = "error"
    /\ err = GraphRecursionError
    /\ Len(trace) = RecursionLimit
    /\ ToolReplies = StepLimitK + 1

\* C20: when a turn completes without error, the last message of the final
\* transcript is an assistant message of this turn without pending tool
\* invocations, and the text returned to the caller is its content, in the
\* agent/tools graphs and in the supervisor graphs for every decision.
C20_FinalAnswerIsAssistant ==
    status = "done"
    => /\ Len(Messages) > initLen
       /\ Last(Messages).role = "ai"
       /\ Last(Messages).calls = <<>>
       /\ returned = Last(Messages).content

(***************************************************************************)
(* Properties of the merge on its own (SpecMerge).                         *)
(***************************************************************************)
\* C13: merging the same partial with messages twice in succession appends
\* two copies of its messages: the transcript grows by twice the partial's
\* message count, and nothing is deduplicated or replaced.
C13_MergeTwiceAppendsTwice ==
    (Len(mOut) = 2 /\ "messages" \in DOMAIN mUpd)
    => /\ Len(mOut[2]["messages"]) =
             Len(mBase["messages"]) + 2 * Len(mUpd["messages"])
       /\ IsPrefix(mOut[1]["messages"], mOut[2]["messages"])

\* C14: merging an empty partial update leaves every field of the state,
\* the transcript included, exactly as it was.
C14_MergeIdentity ==
    (mBase # NoMerge /\ DOMAIN mUpd = {})
    => \A i \in 1..Len(mOut) : mOut[i] = mBase

C14_Witness ==
    /\ mUpd = EmptyPartial
    /\ Len(mOut) = 2
    /\ mOut[2] = mBase
    /\ Len(mBase["messages"]) = 3
    /\ "intent" \in DOMAIN mBase
    /\ mBase["intent"] = "booking"

====
